---------------------------- MODULE Spec2Model ----------------------------
(***************************************************************************)
(* Model of the markdown-book tool's table-of-contents merge               *)
(* (src/src/writer_reader/toc.py), of the chapter edit operations, of      *)
(* add_chapter and of update_toc of WriterService                          *)
(* (src/mdbook/services/writer_service.py), of the frontmatter split and   *)
(* the heading hierarchy of TocService                                     *)
(* (src/mdbook/services/toc_service.py) and of the chapter navigation of   *)
(* BookReader (src/book_reader.py).                                        *)
(*                                                                         *)
(* Text is modelled character by character: a Python str is a sequence of  *)
(* one-character strings, so that parsing, formatting and normalisation    *)
(* are computed as the code computes them.                                 *)
(***************************************************************************)
EXTENDS Integers, Sequences, FiniteSets, TLC

VARIABLES
  summary,   \* text of SUMMARY.md (empty: the file is absent or empty)
  files,     \* the markdown files on disk, as indices into AllPaths
  result,    \* what the last update_summary call did and returned
  before,    \* text of SUMMARY.md when the last update_summary call began
  tree,      \* the TocStructure the last update_summary call serialized
  runs,      \* consecutive structure-preserving updates since the last change
  edits,     \* lines written by hand into SUMMARY.md so far
  doc,       \* the chapter text handed to the frontmatter split
  split,     \* what the split returned for doc so far
  chapter,   \* text of the chapter file of chapter 1
  backups,   \* the texts of the backup copies made so far, oldest first
  request,   \* the edit the caller asks for (text and section identifier)
  outcome,   \* what the last WriterService call did and returned
  calls,     \* WriterService calls made so far
  input,     \* the arguments one text function is applied to
  output,    \* what the function returned for input
  chapters,         \* BookReader.chapters: the chapter numbers discovered
  current_chapter,  \* BookReader.current_chapter
  console,          \* what the last BookReader call printed
  chapter_files,    \* the files of the chapters directory, oldest first
  book_chapters,    \* Book.chapters of the book the writer works on
  summary_md,       \* SUMMARY.md of that book: whether it exists, its text
  toc_update        \* what the last update_toc call did, and the text it found

tocVars == <<summary, files, result, before, tree, runs, edits>>
splitVars == <<doc, split>>
editVars == <<chapter, backups, request, outcome, calls>>
textVars == <<input, output>>
navVars == <<chapters, current_chapter, console>>
bookVars == <<chapter_files, book_chapters, summary_md, toc_update>>
vars == <<tocVars, splitVars, editVars, textVars, navVars, bookVars>>

\* Each specification below exercises one part of the program; the state of
\* the parts it does not exercise stays as these predicates fix it.
TocIdle ==
  /\ summary = <<>> /\ files = {} /\ result = <<>> /\ before = <<>>
  /\ tree = <<>> /\ runs = 0 /\ edits = 0
SplitIdle == doc = <<>> /\ split = <<>>
EditIdle ==
  /\ chapter = <<>> /\ backups = <<>> /\ request = <<>> /\ outcome = <<>>
  /\ calls = 0
TextIdle == input = <<>> /\ output = <<>>
NavIdle == chapters = {} /\ current_chapter = 0 /\ console = ""
BookIdle ==
  /\ chapter_files = <<>> /\ book_chapters = <<>> /\ summary_md = <<>>
  /\ toc_update = <<>>

(***************************************************************************)
(* Python str helpers                                                      *)
(***************************************************************************)

\* the characters Python's \s and str.strip() treat as whitespace (of the
\* model's alphabet)
WS == {" ", "\t", "\n"}

\* index of the first character of s, from index i on, that is not in cs;
\* Len(s)+1 if none
RECURSIVE FirstNotInFrom(_, _, _)
FirstNotInFrom(s, cs, i) ==
  IF i > Len(s) \/ s[i] \notin cs THEN i ELSE FirstNotInFrom(s, cs, i + 1)
FirstNotIn(s, cs) == FirstNotInFrom(s, cs, 1)

\* index of the last character of s, up to index i, that is not in cs;
\* 0 if none
RECURSIVE LastNotInUpTo(_, _, _)
LastNotInUpTo(s, cs, i) ==
  IF i < 1 \/ s[i] \notin cs THEN i ELSE LastNotInUpTo(s, cs, i - 1)
LastNotIn(s, cs) == LastNotInUpTo(s, cs, Len(s))

\* str.lstrip(cs), str.rstrip(cs), str.strip(cs)
LStripChars(s, cs) == SubSeq(s, FirstNotIn(s, cs), Len(s))
RStripChars(s, cs) == SubSeq(s, 1, LastNotIn(s, cs))
LStrip(s) == LStripChars(s, WS)
RStrip(s) == RStripChars(s, WS)
Strip(s) == LStrip(RStrip(s))

\* str.startswith, str.endswith
StartsWith(s, p) == Len(s) >= Len(p) /\ SubSeq(s, 1, Len(p)) = p
EndsWith(s, p) == Len(s) >= Len(p) /\ SubSeq(s, Len(s) - Len(p) + 1, Len(s)) = p

\* smallest index i >= from with s[i] = c, 0 if none (str.find, 1-based)
RECURSIVE IndexFrom(_, _, _)
IndexFrom(s, c, from) ==
  IF from > Len(s) THEN 0
  ELSE IF s[from] = c THEN from ELSE IndexFrom(s, c, from + 1)

\* s.split("\n")
RECURSIVE SplitLines(_)
SplitLines(s) ==
  LET i == IndexFrom(s, "\n", 1)
  IN IF i = 0 THEN <<s>>
     ELSE <<SubSeq(s, 1, i-1)>> \o SplitLines(SubSeq(s, i+1, Len(s)))

\* "\n".join(lines)
RECURSIVE JoinLines(_)
JoinLines(lines) ==
  IF lines = <<>> THEN <<>>
  ELSE IF Len(lines) = 1 THEN lines[1]
  ELSE lines[1] \o <<"\n">> \o JoinLines(Tail(lines))

\* "".join(parts)
RECURSIVE Concat(_)
Concat(parts) == IF parts = <<>> THEN <<>> ELSE parts[1] \o Concat(Tail(parts))

\* s.count(c) for a one-character c
RECURSIVE CountChar(_, _)
CountChar(s, c) ==
  IF s = <<>> THEN 0
  ELSE (IF s[1] = c THEN 1 ELSE 0) + CountChar(Tail(s), c)

\* the letters of the model's alphabet and their case mappings, the digits
LOWER == {"a", "b", "c", "d", "e", "h", "m", "n", "p", "r", "t", "x"}
UPPER == {"A", "B", "C", "D", "E", "H", "M", "N", "P", "R", "T", "X"}
DIGITS == {"0", "1", "2", "3", "4", "5", "6", "7", "8", "9"}
ToLowerChar(c) ==
  CASE c = "A" -> "a" [] c = "B" -> "b" [] c = "C" -> "c" [] c = "D" -> "d"
    [] c = "E" -> "e" [] c = "H" -> "h" [] c = "M" -> "m" [] c = "N" -> "n"
    [] c = "P" -> "p" [] c = "R" -> "r" [] c = "T" -> "t" [] c = "X" -> "x"
    [] OTHER -> c
ToUpperChar(c) ==
  CASE c = "a" -> "A" [] c = "b" -> "B" [] c = "c" -> "C" [] c = "d" -> "D"
    [] c = "e" -> "E" [] c = "h" -> "H" [] c = "m" -> "M" [] c = "n" -> "N"
    [] c = "p" -> "P" [] c = "r" -> "R" [] c = "t" -> "T" [] c = "x" -> "X"
    [] OTHER -> c
\* str.lower()
RECURSIVE Lower(_)
Lower(s) == IF s = <<>> THEN <<>> ELSE <<ToLowerChar(s[1])>> \o Lower(Tail(s))
\* str.title(): a cased character is upper-cased when the character before
\* it is uncased (or there is none), lower-cased otherwise
RECURSIVE TitleFrom(_, _)
TitleFrom(s, prevCased) ==
  IF s = <<>> THEN <<>>
  ELSE <<IF prevCased THEN ToLowerChar(s[1]) ELSE ToUpperChar(s[1])>>
         \o TitleFrom(Tail(s), s[1] \in (LOWER \cup UPPER))
Title(s) == TitleFrom(s, FALSE)
\* str.replace(a, b) for one-character a and b
RECURSIVE ReplaceChar(_, _, _)
ReplaceChar(s, a, b) ==
  IF s = <<>> THEN <<>>
  ELSE <<IF s[1] = a THEN b ELSE s[1]>> \o ReplaceChar(Tail(s), a, b)

(***************************************************************************)
(* toc.py: TocEntry, TocStructure                                          *)
(*                                                                         *)
(* A TocStructure is a heap of TocEntry objects: nodes[id] is the entry    *)
(* created id-th, children and entries hold ids in list order.  A path of  *)
(* None is the empty sequence (the code only tests `if entry.path`).       *)
(***************************************************************************)
NoPath == <<>>

TocEntry(title, path, indent_level, is_part_header, raw_line) ==
  [title |-> title, path |-> path, indent_level |-> indent_level,
   children |-> <<>>, is_part_header |-> is_part_header, raw_line |-> raw_line]

\* TocStructure(): the dataclass defaults
EmptyStructure ==
  [title |-> <<"S","u","m","m","a","r","y">>,
   raw_header |-> <<"#"," ","S","u","m","m","a","r","y">>,
   nodes |-> <<>>, entries |-> <<>>]

\* "  " * n
RECURSIVE Indent(_)
Indent(n) == IF n <= 0 THEN <<>> ELSE <<" ", " ">> \o Indent(n - 1)

\* a serialization that drops the indentation of nested entries
entry_to_markdown_noindent(e) ==
  IF e.is_part_header THEN <<"\n">> \o e.raw_line \o <<"\n">>
  ELSE IF e.path # NoPath
       THEN <<"-", " ", "[">> \o e.title \o <<"]", "(">> \o e.path \o <<")">>
       ELSE <<"-", " ">> \o e.title

\* TocEntry.to_markdown
entry_to_markdown(e) ==
  IF e.is_part_header THEN <<"\n">> \o e.raw_line \o <<"\n">>
  ELSE IF e.path # NoPath
       THEN Indent(e.indent_level) \o <<"-", " ", "[">> \o e.title
              \o <<"]", "(">> \o e.path \o <<")">>
       ELSE Indent(e.indent_level) \o <<"-", " ">> \o e.title

\* render_entries: each entry, then its children, in list order
RECURSIVE render_entries(_, _)
render_entries(st, ids) ==
  IF ids = <<>> THEN <<>>
  ELSE <<entry_to_markdown(st.nodes[ids[1]])>>
         \o render_entries(st, st.nodes[ids[1]].children)
         \o render_entries(st, Tail(ids))

\* TocStructure.to_markdown
to_markdown(st) ==
  JoinLines(<<st.raw_header, <<>>>> \o render_entries(st, st.entries)) \o <<"\n">>

\* a path collection that looks at the given entries only, not at their
\* children
collect_paths_toplevel(st, ids) ==
  {st.nodes[ids[i]].path : i \in {j \in 1..Len(ids) : st.nodes[ids[j]].path # NoPath}}

\* collect_paths: the paths of the entries reachable from ids
RECURSIVE collect_paths(_, _)
collect_paths(st, ids) ==
  IF ids = <<>> THEN {}
  ELSE (IF st.nodes[ids[1]].path # NoPath THEN {st.nodes[ids[1]].path} ELSE {})
         \cup collect_paths(st, st.nodes[ids[1]].children)
         \cup collect_paths(st, Tail(ids))

\* TocStructure.get_all_paths
get_all_paths(st) == collect_paths(st, st.entries)

(***************************************************************************)
(* toc.py: parse_summary_structure                                         *)
(***************************************************************************)

\* link_pattern  ^(\s*)-\s*\[([^\]]+)\]\(([^)]+)\)\s*$
\* Each group is forced: the indent is the leading whitespace, the title
\* runs to the first "]", the path to the first ")".
link_match(line) ==
  LET n == Len(line)
      d == FirstNotIn(line, WS)
      b == IF d <= n THEN d + FirstNotIn(SubSeq(line, d + 1, n), WS) ELSE n + 1
      k == IF b <= n THEN IndexFrom(line, "]", b + 1) ELSE 0
      m == IF k > 0 THEN IndexFrom(line, ")", k + 2) ELSE 0
      ok == /\ d <= n /\ line[d] = "-"
            /\ b <= n /\ line[b] = "["
            /\ k >= b + 2
            /\ k + 1 <= n /\ line[k + 1] = "("
            /\ m >= k + 3
            /\ \A i \in (m + 1)..n : line[i] \in WS
  IN IF ok
     THEN [ok |-> TRUE, indent |-> d - 1,
           title |-> SubSeq(line, b + 1, k - 1), path |-> SubSeq(line, k + 2, m - 1)]
     ELSE [ok |-> FALSE, indent |-> 0, title |-> <<>>, path |-> <<>>]

\* text_pattern  ^(\s*)-\s*(.+)\s*$
\* (.+) is greedy: it takes everything after the whitespace that follows
\* the dash; when only whitespace follows the dash, \s* gives back its last
\* character to (.+).
text_match(line) ==
  LET n == Len(line)
      d == FirstNotIn(line, WS)
      rest == IF d <= n THEN SubSeq(line, d + 1, n) ELSE <<>>
      ok == d <= n /\ line[d] = "-" /\ rest # <<>>
  IN IF ok
     THEN [ok |-> TRUE, indent |-> d - 1,
           title |-> IF LStrip(rest) = <<>> THEN <<rest[Len(rest)]>> ELSE LStrip(rest)]
     ELSE [ok |-> FALSE, indent |-> 0, title |-> <<>>]

\* part_pattern  ^##\s+(.+)$  on the stripped line
part_match(stripped) ==
  LET ok == /\ StartsWith(stripped, <<"#", "#">>)
            /\ Len(stripped) >= 4
            /\ stripped[3] \in WS
  IN IF ok
     THEN [ok |-> TRUE, title |-> LStrip(SubSeq(stripped, 3, Len(stripped)))]
     ELSE [ok |-> FALSE, title |-> <<>>]

\* the while loop popping only the entries at a deeper level
RECURSIVE pop_stack_deeper_only(_, _)
pop_stack_deeper_only(entry_stack, indent_level) ==
  IF entry_stack # <<>> /\ entry_stack[Len(entry_stack)][1] > indent_level
  THEN pop_stack_deeper_only(SubSeq(entry_stack, 1, Len(entry_stack) - 1),
                             indent_level)
  ELSE entry_stack

\* the while loop of _add_entry_to_structure: pop the entries at the same or
\* a deeper level
RECURSIVE pop_stack(_, _)
pop_stack(entry_stack, indent_level) ==
  IF entry_stack # <<>> /\ entry_stack[Len(entry_stack)][1] >= indent_level
  THEN pop_stack(SubSeq(entry_stack, 1, Len(entry_stack) - 1), indent_level)
  ELSE entry_stack

\* _add_entry_to_structure, on the parse state [st, stack]
add_entry_to_structure(ps, entry, indent_level) ==
  LET stack == pop_stack(ps.stack, indent_level)
      id == Len(ps.st.nodes) + 1
      nodes1 == Append(ps.st.nodes, entry)
  IN IF stack # <<>>
     THEN LET parent == stack[Len(stack)][2]
          IN [st |-> [ps.st EXCEPT
                        !.nodes = [nodes1 EXCEPT
                                     ![parent].children = Append(@, id)]],
              stack |-> Append(stack, <<indent_level, id>>)]
     ELSE [st |-> [ps.st EXCEPT !.nodes = nodes1, !.entries = Append(@, id)],
           stack |-> Append(stack, <<indent_level, id>>)]

\* a parse step whose part header keeps the entry stack
parse_line_noreset(ps, line) ==
  LET stripped == Strip(line)
      pm == part_match(stripped)
      lm == link_match(line)
      tm == text_match(line)
  IN IF stripped = <<>> THEN ps
     ELSE IF pm.ok
     THEN [st |-> [ps.st EXCEPT
                     !.nodes = Append(@, TocEntry(pm.title, NoPath, 0, TRUE, stripped)),
                     !.entries = Append(@, Len(ps.st.nodes) + 1)],
           stack |-> ps.stack]
     ELSE IF lm.ok
     THEN add_entry_to_structure(
            ps, TocEntry(lm.title, lm.path, lm.indent \div 2, FALSE, line),
            lm.indent \div 2)
     ELSE IF tm.ok /\ IndexFrom(tm.title, "[", 1) = 0
     THEN add_entry_to_structure(
            ps, TocEntry(tm.title, NoPath, tm.indent \div 2, FALSE, line),
            tm.indent \div 2)
     ELSE ps

\* a parse step that keeps a list line whose text has a "[" as a plain entry
parse_line_keeping_brackets(ps, line) ==
  LET stripped == Strip(line)
      pm == part_match(stripped)
      lm == link_match(line)
      tm == text_match(line)
  IN IF stripped = <<>> THEN ps
     ELSE IF pm.ok
     THEN [st |-> [ps.st EXCEPT
                     !.nodes = Append(@, TocEntry(pm.title, NoPath, 0, TRUE, stripped)),
                     !.entries = Append(@, Len(ps.st.nodes) + 1)],
           stack |-> <<>>]
     ELSE IF lm.ok
     THEN add_entry_to_structure(
            ps, TocEntry(lm.title, lm.path, lm.indent \div 2, FALSE, line),
            lm.indent \div 2)
     ELSE IF tm.ok
     THEN add_entry_to_structure(
            ps, TocEntry(tm.title, NoPath, tm.indent \div 2, FALSE, line),
            tm.indent \div 2)
     ELSE ps

\* the body of the `for line in lines` loop of parse_summary_structure
parse_line(ps, line) ==
  LET stripped == Strip(line)
      pm == part_match(stripped)
      lm == link_match(line)
      tm == text_match(line)
  IN IF stripped = <<>> THEN ps
     ELSE IF pm.ok
     THEN [st |-> [ps.st EXCEPT
                     !.nodes = Append(@, TocEntry(pm.title, NoPath, 0, TRUE, stripped)),
                     !.entries = Append(@, Len(ps.st.nodes) + 1)],
           stack |-> <<>>]
     ELSE IF lm.ok
     THEN add_entry_to_structure(
            ps, TocEntry(lm.title, lm.path, lm.indent \div 2, FALSE, line),
            lm.indent \div 2)
     ELSE IF tm.ok /\ IndexFrom(tm.title, "[", 1) = 0
     THEN add_entry_to_structure(
            ps, TocEntry(tm.title, NoPath, tm.indent \div 2, FALSE, line),
            tm.indent \div 2)
     ELSE ps

RECURSIVE parse_lines(_, _)
parse_lines(ps, lines) ==
  IF lines = <<>> THEN ps ELSE parse_lines(parse_line(ps, lines[1]), Tail(lines))

\* parse_summary_structure
parse_summary_structure(content) ==
  LET lines == SplitLines(content)
      isHeader(i) == StartsWith(lines[i], <<"#", " ">>)
      h == IF \E i \in 1..Len(lines) : isHeader(i)
           THEN CHOOSE i \in 1..Len(lines) :
                  isHeader(i) /\ \A j \in 1..(i-1) : ~isHeader(j)
           ELSE 0
      st0 == IF h = 0 THEN EmptyStructure
             ELSE [EmptyStructure EXCEPT
                     !.raw_header = lines[h],
                     !.title = Strip(SubSeq(lines[h], 3, Len(lines[h])))]
      body == IF h = 0 THEN lines ELSE SubSeq(lines, h + 1, Len(lines))
  IN parse_lines([st |-> st0, stack |-> <<>>], body).st


(***************************************************************************)
(* toc.py: _normalize_path, _path_to_title                                 *)
(***************************************************************************)

\* _normalize_path
normalize_path(path) ==
  LET normalized == ReplaceChar(path, "\\", "/")
  IN Lower(IF StartsWith(normalized, <<".", "/">>)
           THEN SubSeq(normalized, 3, Len(normalized))
           ELSE normalized)

\* index of the last occurrence in s of a character of cs, 0 if none
LastIndexIn(s, cs) == LastNotIn(s, {s[i] : i \in 1..Len(s)} \ cs)

\* Path(path).stem: the final component without its last suffix (a name
\* that starts or ends with its only dot has no suffix).  discover lists
\* paths with the platform's separator, so both separators end a component.
path_stem(path) ==
  LET name == SubSeq(path, LastIndexIn(path, {"/", "\\"}) + 1, Len(path))
      dot == LastIndexIn(name, {"."})
  IN IF dot > 1 /\ dot < Len(name) THEN SubSeq(name, 1, dot - 1) ELSE name

\* number of digits of s from index i on
RECURSIVE DigitRun(_, _)
DigitRun(s, i) ==
  IF i <= Len(s) /\ s[i] \in DIGITS THEN 1 + DigitRun(s, i + 1) ELSE 0

\* end of the match of  ^(ch(apter)?[-_]?)?\d+[-_]?  (IGNORECASE) when the
\* optional group takes the first p characters of name; 0 if no match
prefix_end(name, p) ==
  LET q == IF p > 0 /\ p + 1 <= Len(name) /\ name[p + 1] \in {"-", "_"}
           THEN p + 1 ELSE p
      d == DigitRun(name, q + 1)
  IN IF d = 0 THEN 0
     ELSE IF q + d + 1 <= Len(name) /\ name[q + d + 1] \in {"-", "_"}
     THEN q + d + 1 ELSE q + d

\* re.sub(r"^(ch(apter)?[-_]?)?\d+[-_]?", "", name, flags=re.IGNORECASE)
strip_chapter_prefix(name) ==
  LET low == Lower(name)
      e7 == IF StartsWith(low, <<"c","h","a","p","t","e","r">>)
            THEN prefix_end(name, 7) ELSE 0
      e2 == IF StartsWith(low, <<"c","h">>) THEN prefix_end(name, 2) ELSE 0
      e0 == prefix_end(name, 0)
      e == IF e7 > 0 THEN e7 ELSE IF e2 > 0 THEN e2 ELSE e0
  IN SubSeq(name, e + 1, Len(name))

\* _path_to_title
path_to_title(path) ==
  LET name == ReplaceChar(ReplaceChar(strip_chapter_prefix(path_stem(path)),
                                      "-", " "), "_", " ")
  IN IF name # <<>> THEN Title(name) ELSE Title(path_stem(path))

(***************************************************************************)
(* toc.py: _update_preserving_structure, _generate_flat_structure          *)
(***************************************************************************)

\* a merge that files each new entry under the last top-level entry
\* instead of appending it at top level
append_added_nested(st, added) ==
  IF added = <<>> \/ st.entries = <<>> THEN st
  ELSE [st EXCEPT
          !.nodes = [Append(@, TocEntry(path_to_title(added[1]), added[1], 1,
                                        FALSE, <<>>))
                       EXCEPT ![st.entries[Len(st.entries)]].children =
                                Append(@, Len(st.nodes) + 1)]]

\* the entries appended for the added files
RECURSIVE append_added(_, _)
append_added(st, added) ==
  IF added = <<>> THEN st
  ELSE append_added(
         [st EXCEPT
            !.nodes = Append(@, TocEntry(path_to_title(added[1]), added[1], 0,
                                         FALSE, <<>>)),
            !.entries = Append(@, Len(st.nodes) + 1)],
         Tail(added))

\* a merge that stores every path in the form it compares
merge_structure_normalizing(structure, discovered_files) ==
  LET normalized_existing == {normalize_path(p) : p \in get_all_paths(structure)}
      isExisting(p) == normalize_path(p) \in normalized_existing
      isAdded(p) == ~isExisting(p)
      added == SelectSeq(discovered_files, isAdded)
      existing == SelectSeq(discovered_files, isExisting)
      stored == [structure EXCEPT
                   !.nodes = [i \in 1..Len(@) |->
                                IF @[i].path = NoPath THEN @[i]
                                ELSE [@[i] EXCEPT !.path = normalize_path(@)]]]
  IN [structure |-> append_added(stored, added),
      added |-> added, existing |-> existing]

\* the structure _update_preserving_structure builds and what it returns
merge_structure(structure, discovered_files) ==
  LET normalized_existing == {normalize_path(p) : p \in get_all_paths(structure)}
      isExisting(p) == normalize_path(p) \in normalized_existing
      isAdded(p) == ~isExisting(p)
      added == SelectSeq(discovered_files, isAdded)
      existing == SelectSeq(discovered_files, isExisting)
  IN [structure |-> append_added(structure, added),
      added |-> added, existing |-> existing]

\* _update_preserving_structure: the text written and the dict returned
update_preserving_structure(existing_content, discovered_files) ==
  LET m == merge_structure(parse_summary_structure(existing_content),
                           discovered_files)
  IN [written |-> to_markdown(m.structure), structure |-> m.structure,
      added |-> m.added, existing |-> m.existing]

\* _generate_flat_structure with each entry indented by the depth of its
\* path
generate_flat_structure_by_depth(discovered_files) ==
  LET flat == append_added(EmptyStructure, discovered_files)
      st == [flat EXCEPT !.nodes =
               [i \in DOMAIN flat.nodes |->
                  [flat.nodes[i] EXCEPT !.indent_level =
                     CountChar(flat.nodes[i].path, "/")]]]
  IN [written |-> to_markdown(st), structure |-> st,
      added |-> discovered_files, existing |-> <<>>]

\* _generate_flat_structure
generate_flat_structure(discovered_files) ==
  LET st == append_added(EmptyStructure, discovered_files)
  IN [written |-> to_markdown(st), structure |-> st,
      added |-> discovered_files, existing |-> <<>>]


\* the tree below ids as nested tuples <<title, path, indent_level,
\* is_part_header, children>>: structural equality of two structures
RECURSIVE Shape(_, _)
Shape(st, ids) ==
  IF ids = <<>> THEN <<>>
  ELSE <<<<st.nodes[ids[1]].title, st.nodes[ids[1]].path,
           st.nodes[ids[1]].indent_level, st.nodes[ids[1]].is_part_header,
           Shape(st, st.nodes[ids[1]].children)>>>>
         \o Shape(st, Tail(ids))


(***************************************************************************)
(* The outline on disk and update_summary                                  *)
(***************************************************************************)

\* bounds of the model
MaxLines == 3
MaxFiles == 2

\* the lines a hand-edited outline is made of
OutlineLines ==
  << <<"-"," ","[","a","]","(","a",".","m","d",")">>,
     <<" "," ","-"," ","[","b","]","(",".","/","X","\\","b",".","m","d",")"," ">>,
     <<" "," "," "," "," ","-","t">>,
     <<"#","#"," ","H">>,
     <<"-"," ","[","x","]","(","d">> >>

\* what SUMMARY.md holds at first: nothing (no file yet), or the header
\* line of an outline the author then writes
OutlineHeaders == { <<>>, <<"#"," ","T","\n">> }

\* the markdown files that may exist, in the order discovery sorts them
AllPaths ==
  << <<"a",".","m","d">>,
     <<"n","(","1",")",".","m","d">>,
     <<"x","/","b",".","m","d">> >>

\* discover_markdown_files: the files on disk, sorted
discover_markdown_files(fs) ==
  LET present(i) == i \in fs
      idx == SelectSeq([i \in 1..Len(AllPaths) |-> i], present)
  IN [k \in 1..Len(idx) |-> AllPaths[idx[k]]]

NoResult ==
  [mode |-> "none", selected_flat |-> FALSE, discovered |-> <<>>,
   added |-> <<>>, existing |-> <<>>]

\* def update_summary(book_dir, preserve_structure=True)
preserve_structure_default == TRUE

TocInit ==
  /\ summary \in OutlineHeaders
  /\ files = {}
  /\ result = NoResult
  /\ before = <<>>
  /\ tree = EmptyStructure
  /\ runs = 0
  /\ edits = 0
  /\ SplitIdle /\ EditIdle /\ TextIdle /\ NavIdle /\ BookIdle

\* the author writes one more line into SUMMARY.md, below its header
EditSummary ==
  /\ edits < MaxLines
  /\ summary # <<>>
  /\ result.mode = "none"
  /\ \E i \in 1..Len(OutlineLines) :
       summary' = summary \o OutlineLines[i] \o <<"\n">>
  /\ edits' = edits + 1
  /\ runs' = 0
  /\ UNCHANGED <<files, result, before, tree>>
  /\ UNCHANGED <<splitVars, editVars, textVars, navVars, bookVars>>

\* a markdown file is created in the book
AddFile ==
  /\ Cardinality(files) < MaxFiles
  /\ result.mode = "none"
  /\ \E i \in 1..Len(AllPaths) : i \notin files /\ files' = files \cup {i}
  /\ runs' = 0
  /\ UNCHANGED <<summary, result, before, tree, edits>>
  /\ UNCHANGED <<splitVars, editVars, textVars, navVars, bookVars>>

\* update_summary(book_dir, preserve_structure); explicit tells whether the
\* caller passed preserve_structure or left it to its default
update_summary(preserve_structure, explicit) ==
  LET existing_content == summary
      discovered_files == discover_markdown_files(files)
      preserving == preserve_structure /\ existing_content # <<>>
      r == IF preserving
           THEN update_preserving_structure(existing_content, discovered_files)
           ELSE generate_flat_structure(discovered_files)
  IN /\ summary' = r.written
     /\ tree' = r.structure
     /\ before' = summary
     /\ result' = [mode |-> IF preserving THEN "preserve" ELSE "flat",
                   selected_flat |-> explicit /\ ~preserve_structure,
                   discovered |-> discovered_files,
                   added |-> r.added, existing |-> r.existing]
     /\ runs' = IF preserving THEN (IF runs < 2 THEN runs + 1 ELSE 2) ELSE 0
     /\ UNCHANGED <<files, edits>>
     /\ UNCHANGED <<splitVars, editVars, textVars, navVars, bookVars>>

UpdateSummary ==
  \/ update_summary(preserve_structure_default, FALSE)
  \/ \E preserve_structure \in BOOLEAN : update_summary(preserve_structure, TRUE)

TocNext == EditSummary \/ AddFile \/ UpdateSummary

SpecToc == TocInit /\ [][TocNext]_vars


(***************************************************************************)
(* Frontmatter: the block WriterService keeps in front of an edited        *)
(* chapter, and _strip_frontmatter, which yields the text handed to        *)
(* section parsing.  The services each carry the same _strip_frontmatter   *)
(* (toc_service.py, index_service.py, render_service.py).                  *)
(***************************************************************************)
DASHES == <<"-", "-", "-">>

\* largest index j in lo..hi with s[j] = "\n", 0 if none
RECURSIVE LastNewlineIn(_, _, _)
LastNewlineIn(s, lo, hi) ==
  IF hi < lo THEN 0
  ELSE IF s[hi] = "\n" THEN hi ELSE LastNewlineIn(s, lo, hi - 1)

\* re.search(r"\n---\s*\n", rest): match.end() of the leftmost match, 0 when
\* nothing matches.  At a "\n---" the greedy \s* takes the whole run of
\* whitespace that follows and gives back to its last "\n".
RECURSIVE closing_delimiter_end_from(_, _)
closing_delimiter_end_from(rest, i) ==
  IF i + 4 > Len(rest) THEN 0
  ELSE IF rest[i] = "\n" /\ SubSeq(rest, i + 1, i + 3) = DASHES
       THEN LET k == FirstNotInFrom(rest, WS, i + 4)
                nl == LastNewlineIn(rest, i + 4, k - 1)
            IN IF nl # 0 THEN nl ELSE closing_delimiter_end_from(rest, i + 1)
       ELSE closing_delimiter_end_from(rest, i + 1)
closing_delimiter_end(rest) == closing_delimiter_end_from(rest, 1)

\* WriterService: "# Extract frontmatter"
extract_frontmatter(full_content) ==
  IF StartsWith(full_content, DASHES)
  THEN LET end == closing_delimiter_end(SubSeq(full_content, 4, Len(full_content)))
       IN IF end # 0 THEN SubSeq(full_content, 1, 3 + end) ELSE <<>>
  ELSE <<>>

\* _strip_frontmatter(content)
strip_frontmatter(content) ==
  IF ~StartsWith(content, DASHES) THEN content
  ELSE LET end == closing_delimiter_end(SubSeq(content, 4, Len(content)))
       IN IF end # 0
          THEN LStrip(SubSeq(content, 3 + end + 1, Len(content)))
          ELSE content

\* bound of the model: the lines of a chapter text handed to the split
MaxDocLines == 4

\* the lines a chapter text is made of: delimiter lines, lines that only
\* resemble one, a blank line, an indented line and a plain line
DocLines ==
  { <<"-", "-", "-">>, <<"-", "-", "-", " ">>, <<"-", "-", "-", "x">>,
    <<>>, <<" ", "x">>, <<"t">> }

NoParts == [extracted |-> FALSE, frontmatter |-> <<>>,
            stripped |-> FALSE, body |-> <<>>]

SplitInit ==
  /\ \E n \in 1..MaxDocLines : \E lines \in [1..n -> DocLines] :
       doc = JoinLines(lines)
  /\ split = NoParts
  /\ TocIdle /\ EditIdle /\ TextIdle /\ NavIdle /\ BookIdle

\* an edit operation extracts the frontmatter block of the chapter text
ExtractFrontmatter ==
  /\ ~split.extracted
  /\ split' = [split EXCEPT !.extracted = TRUE,
                            !.frontmatter = extract_frontmatter(doc)]
  /\ UNCHANGED <<doc, tocVars, editVars, textVars, navVars, bookVars>>

\* the chapter text is stripped of its frontmatter for section parsing
StripFrontmatter ==
  /\ ~split.stripped
  /\ split' = [split EXCEPT !.stripped = TRUE,
                            !.body = strip_frontmatter(doc)]
  /\ UNCHANGED <<doc, tocVars, editVars, textVars, navVars, bookVars>>

SplitNext == ExtractFrontmatter \/ StripFrontmatter

SpecSplit == SplitInit /\ [][SplitNext]_vars


(***************************************************************************)
(* ReaderService.parse_sections and ReaderService.get_section              *)
(* (mdbook/services/reader_service.py): a section starts at every line     *)
(* that begins with "## "; the lines before the first one are section 0,   *)
(* which has no heading; an empty body has no sections.  A section's       *)
(* content is the text of its lines, its own heading line included.        *)
(***************************************************************************)
H2 == <<"#", "#", " ">>
NoHeading == <<>>

Section(index, heading, start_line, end_line, content) ==
  [index |-> index, heading |-> heading, start_line |-> start_line,
   end_line |-> end_line, content |-> content]

\* get_section's None
NoSection == Section(-1, NoHeading, 0, 0, <<>>)

parse_sections(body) ==
  IF body = <<>> THEN <<>>
  ELSE LET lines == SplitLines(body)
           is_heading(i) == StartsWith(lines[i], H2)
           starts == SelectSeq([i \in 1..Len(lines) |-> i], is_heading)
           first == IF starts = <<>> THEN Len(lines) + 1 ELSE starts[1]
           preamble == Section(0, NoHeading, 1, first - 1,
                               JoinLines(SubSeq(lines, 1, first - 1)))
           headed(k) ==
             LET a == starts[k]
                 b == IF k < Len(starts) THEN starts[k + 1] - 1 ELSE Len(lines)
             IN Section(k, SubSeq(lines[a], 4, Len(lines[a])), a, b,
                        JoinLines(SubSeq(lines, a, b)))
       IN <<preamble>> \o [k \in 1..Len(starts) |-> headed(k)]

\* a section identifier: an int, or a str
IntId(n) == [is_int |-> TRUE, n |-> n, s |-> <<>>]
StrId(s) == [is_int |-> FALSE, n |-> 0, s |-> s]

\* str.isdigit() and int(s)
IsDigits(s) == s # <<>> /\ \A i \in 1..Len(s) : s[i] \in DIGITS
DigitValue(c) ==
  CHOOSE d \in 0..9 : <<"0","1","2","3","4","5","6","7","8","9">>[d + 1] = c
RECURSIVE ToInt(_)
ToInt(s) ==
  IF s = <<>> THEN 0
  ELSE 10 * ToInt(SubSeq(s, 1, Len(s) - 1)) + DigitValue(s[Len(s)])

\* needle in hay
IsSubstring(needle, hay) ==
  \E i \in 1..(Len(hay) - Len(needle) + 1) :
    SubSeq(hay, i, i + Len(needle) - 1) = needle

section_by_index(sections, n) ==
  IF n >= 0 /\ n < Len(sections) THEN sections[n + 1] ELSE NoSection

\* the first section whose heading holds the text, whatever the case
RECURSIVE section_by_heading(_, _, _)
section_by_heading(sections, text, i) ==
  IF i > Len(sections) THEN NoSection
  ELSE IF /\ sections[i].heading # NoHeading
          /\ IsSubstring(Lower(text), Lower(sections[i].heading))
       THEN sections[i]
       ELSE section_by_heading(sections, text, i + 1)

\* get_section that looks a numeric string up among the headings when no
\* section has that index
get_section_heading_fallback(sections, identifier) ==
  IF identifier.is_int THEN section_by_index(sections, identifier.n)
  ELSE LET by_index == IF IsDigits(identifier.s)
                       THEN section_by_index(sections, ToInt(identifier.s))
                       ELSE NoSection
       IN IF by_index # NoSection THEN by_index
          ELSE section_by_heading(sections, identifier.s, 1)

\* an int, or a string of digits, is an index and nothing else; any other
\* string is looked up among the headings
get_section(sections, identifier) ==
  IF identifier.is_int THEN section_by_index(sections, identifier.n)
  ELSE IF IsDigits(identifier.s)
  THEN section_by_index(sections, ToInt(identifier.s))
  ELSE section_by_heading(sections, identifier.s, 1)

(***************************************************************************)
(* writer_service.py: WriterService                                        *)
(***************************************************************************)

\* re.sub(r"[\s_-]+", "-", s): every run of the characters becomes one "-"
RECURSIVE collapse_runs(_, _, _)
collapse_runs(s, cs, i) ==
  IF i > Len(s) THEN <<>>
  ELSE IF s[i] \in cs
       THEN <<"-">> \o collapse_runs(s, cs, FirstNotInFrom(s, cs, i))
       ELSE <<s[i]>> \o collapse_runs(s, cs, i + 1)

\* the characters \w matches
WORD == LOWER \cup UPPER \cup DIGITS \cup {"_"}

\* _slugify with the runs collapsed before the other characters are removed
slugify_collapse_first(text) ==
  LET lowered == Strip(Lower(text))
      kept(c) == c \in WORD \cup WS \cup {"-"}
      collapsed == collapse_runs(lowered, WS \cup {"_", "-"}, 1)
  IN LStripChars(RStripChars(SelectSeq(collapsed, kept), {"-"}), {"-"})

\* _slugify(text)
slugify(text) ==
  LET lowered == Strip(Lower(text))
      kept(c) == c \in WORD \cup WS \cup {"-"}
      removed == SelectSeq(lowered, kept)
      collapsed == collapse_runs(removed, WS \cup {"_", "-"}, 1)
  IN LStripChars(RStripChars(collapsed, {"-"}), {"-"})

\* the backtick (written here as a character no text of the model holds
\* otherwise) and the code fence made of three
BT == "~"
FENCE == <<BT, BT, BT>>

\* content.count(FENCE): occurrences that do not overlap, from the left
RECURSIVE CountFencesFrom(_, _)
CountFencesFrom(s, i) ==
  IF i + 2 > Len(s) THEN 0
  ELSE IF SubSeq(s, i, i + 2) = FENCE THEN 1 + CountFencesFrom(s, i + 3)
       ELSE CountFencesFrom(s, i + 1)
CountFences(s) == CountFencesFrom(s, 1)

\* _validate_markdown that warns of brackets only when more are opened than
\* closed
validate_markdown_open_only(content) ==
  LET code_block_count == CountFences(content)
      open_brackets == CountChar(content, "[")
      close_brackets == CountChar(content, "]")
  IN (IF code_block_count % 2 # 0
      THEN << [kind |-> "Unclosed code block", open |-> 0, close |-> 0] >>
      ELSE <<>>)
     \o (IF open_brackets > close_brackets
         THEN << [kind |-> "Mismatched brackets", open |-> open_brackets,
                  close |-> close_brackets] >>
         ELSE <<>>)

\* _validate_markdown(content): the list of warnings
validate_markdown(content) ==
  LET code_block_count == CountFences(content)
      open_brackets == CountChar(content, "[")
      close_brackets == CountChar(content, "]")
  IN (IF code_block_count % 2 # 0
      THEN << [kind |-> "Unclosed code block", open |-> 0, close |-> 0] >>
      ELSE <<>>)
     \o (IF open_brackets # close_brackets
         THEN << [kind |-> "Mismatched brackets", open |-> open_brackets,
                  close |-> close_brackets] >>
         ELSE <<>>)

\* str.splitlines(keepends=True)
RECURSIVE splitlines(_)
splitlines(s) ==
  LET i == IndexFrom(s, "\n", 1)
  IN IF s = <<>> THEN <<>>
     ELSE IF i = 0 THEN <<s>>
     ELSE <<SubSeq(s, 1, i)>> \o splitlines(SubSeq(s, i + 1, Len(s)))

\* EditResult.diff: None, or the text _generate_diff returns.  difflib
\* yields nothing for equal texts and otherwise hunks that are determined
\* by the two lists of lines, which stand here for the hunks.
NoDiff == [none |-> TRUE, old |-> <<>>, new |-> <<>>]
generate_diff(original, modified) ==
  IF original = modified
  THEN [none |-> FALSE, old |-> <<>>, new |-> <<>>]
  ELSE [none |-> FALSE, old |-> splitlines(original), new |-> splitlines(modified)]

EditResult(success, message, warnings, backup_path, diff) ==
  [success |-> success, message |-> message, warnings |-> warnings,
   backup_path |-> backup_path, diff |-> diff]

\* The steps an edit takes on storage, in order: "copy" is _create_backup
\* (shutil.copy2 of the chapter file), "write" is write_file.
CopyStep == [do |-> "copy", text |-> <<>>]
WriteStep(text) == [do |-> "write", text |-> text]

RECURSIVE apply_steps(_, _)
apply_steps(store, steps) ==
  IF steps = <<>> THEN store
  ELSE apply_steps(
         IF steps[1].do = "copy"
         THEN [store EXCEPT !.backups = Append(@, store.chapter)]
         ELSE [store EXCEPT !.chapter = steps[1].text],
         Tail(steps))

\* a plausible bug: the warnings are reported but do not stop the edit
finish_edit_advisory(original_content, modified_content, dry_run, create_backup) ==
  LET warnings == validate_markdown(modified_content)
      diff == generate_diff(original_content, modified_content)
  IN IF dry_run
     THEN [result |-> EditResult(TRUE, "Dry run - no changes written",
                                 warnings, FALSE, diff),
           steps |-> <<>>]
     ELSE [result |-> EditResult(TRUE, "Updated", warnings,
                                 create_backup, diff),
           steps |-> (IF create_backup THEN <<CopyStep>> ELSE <<>>)
                     \o <<WriteStep(modified_content)>>]

\* a plausible bug: the backup is made before the dry-run return
finish_edit_backup_first(original_content, modified_content, dry_run, create_backup) ==
  LET warnings == validate_markdown(modified_content)
      diff == generate_diff(original_content, modified_content)
  IN IF warnings # <<>>
     THEN [result |-> EditResult(FALSE, "Markdown validation warnings",
                                 warnings, FALSE, NoDiff),
           steps |-> <<>>]
     ELSE IF dry_run
     THEN [result |-> EditResult(TRUE, "Dry run - no changes written", <<>>,
                                 FALSE, diff),
           steps |-> IF create_backup THEN <<CopyStep>> ELSE <<>>]
     ELSE [result |-> EditResult(TRUE, "Updated", <<>>, create_backup, diff),
           steps |-> (IF create_backup THEN <<CopyStep>> ELSE <<>>)
                     \o <<WriteStep(modified_content)>>]

\* finish_edit that writes the chapter file and then takes the backup
finish_edit_write_first(original_content, modified_content, dry_run, create_backup) ==
  LET warnings == validate_markdown(modified_content)
      diff == generate_diff(original_content, modified_content)
  IN IF warnings # <<>>
     THEN [result |-> EditResult(FALSE, "Markdown validation warnings",
                                 warnings, FALSE, NoDiff),
           steps |-> <<>>]
     ELSE IF dry_run
     THEN [result |-> EditResult(TRUE, "Dry run - no changes written", <<>>,
                                 FALSE, diff),
           steps |-> <<>>]
     ELSE [result |-> EditResult(TRUE, "Updated", <<>>, create_backup, diff),
           steps |-> <<WriteStep(modified_content)>>
                     \o (IF create_backup THEN <<CopyStep>> ELSE <<>>)]

\* the end the four edit operations share: validate, diff, dry-run return,
\* backup, write
finish_edit(original_content, modified_content, dry_run, create_backup) ==
  LET warnings == validate_markdown(modified_content)
      diff == generate_diff(original_content, modified_content)
  IN IF warnings # <<>>
     THEN [result |-> EditResult(FALSE, "Markdown validation warnings",
                                 warnings, FALSE, NoDiff),
           steps |-> <<>>]
     ELSE IF dry_run
     THEN [result |-> EditResult(TRUE, "Dry run - no changes written", <<>>,
                                 FALSE, diff),
           steps |-> <<>>]
     ELSE [result |-> EditResult(TRUE, "Updated", <<>>, create_backup, diff),
           steps |-> (IF create_backup THEN <<CopyStep>> ELSE <<>>)
                     \o <<WriteStep(modified_content)>>]

\* update_section and add_note end with write_file and a dict with
\* "success": True
finish_write(new_chapter_content) ==
  [result |-> EditResult(TRUE, "success", <<>>, FALSE, NoDiff),
   steps |-> <<WriteStep(new_chapter_content)>>]

\* modified_content += "\n" unless it ends with one
with_newline(text) ==
  IF EndsWith(text, <<"\n">>) THEN text ELSE text \o <<"\n">>

\* sep.join(parts)
RECURSIVE Join(_, _)
Join(sep, parts) ==
  IF parts = <<>> THEN <<>>
  ELSE IF Len(parts) = 1 THEN parts[1]
  ELSE parts[1] \o sep \o Join(sep, Tail(parts))

\* replaced_parts with the section after the located one replaced as well
RECURSIVE replaced_parts_onward(_, _, _, _)
replaced_parts_onward(sections, index, updated_section, i) ==
  IF i > Len(sections) THEN <<>>
  ELSE (IF i > 1 /\ sections[i].heading # NoHeading THEN << <<"\n">> >> ELSE <<>>)
       \o << IF sections[i].index \in {index, index + 1} THEN updated_section
             ELSE sections[i].content >>
       \o replaced_parts_onward(sections, index, updated_section, i + 1)

\* new_sections_content with the located section's content replaced, then
\* result_parts: a "\n" part before every section after the first that has
\* a heading
RECURSIVE replaced_parts(_, _, _, _)
replaced_parts(sections, index, updated_section, i) ==
  IF i > Len(sections) THEN <<>>
  ELSE (IF i > 1 /\ sections[i].heading # NoHeading THEN << <<"\n">> >> ELSE <<>>)
       \o << IF sections[i].index = index THEN updated_section
             ELSE sections[i].content >>
       \o replaced_parts(sections, index, updated_section, i + 1)

\* inserted_contents with the text of position "after" put after the last
\* section
RECURSIVE inserted_contents_at_end(_, _, _, _, _)
inserted_contents_at_end(sections, index, text, position, i) ==
  IF i > Len(sections) THEN (IF position = "after" THEN <<text>> ELSE <<>>)
  ELSE (IF sections[i].index = index /\ position = "before" THEN <<text>> ELSE <<>>)
       \o <<sections[i].content>>
       \o inserted_contents_at_end(sections, index, text, position, i + 1)

\* new_sections_content with the new text before or after the located
\* section's content
RECURSIVE inserted_contents(_, _, _, _, _)
inserted_contents(sections, index, text, position, i) ==
  IF i > Len(sections) THEN <<>>
  ELSE (IF sections[i].index = index /\ position = "before" THEN <<text>> ELSE <<>>)
       \o <<sections[i].content>>
       \o (IF sections[i].index = index /\ position = "after" THEN <<text>> ELSE <<>>)
       \o inserted_contents(sections, index, text, position, i + 1)

\* "## {heading}\n\n{new_content.strip()}"
headed_section(heading, new_content) ==
  H2 \o heading \o <<"\n", "\n">> \o Strip(new_content)

\* the modified text each operation builds from the chapter text
update_chapter_modified(original_content, new_content) ==
  with_newline(extract_frontmatter(original_content)
               \o LStripChars(new_content, {"\n"}))

append_modified(original_content, content) ==
  LET separator == IF EndsWith(RStrip(original_content), <<"\n">>)
                   THEN <<"\n">> ELSE <<"\n", "\n">>
  IN with_newline(RStrip(original_content) \o separator \o Strip(content))

insert_modified(full_content, sections, section, content, position) ==
  with_newline(
    extract_frontmatter(full_content)
    \o Join(<<"\n", "\n">>,
            inserted_contents(sections, section.index, Strip(content), position, 1)))

replace_modified(full_content, sections, section, new_content, preserve_heading) ==
  LET updated_section ==
        IF preserve_heading /\ section.heading # NoHeading
        THEN headed_section(section.heading, new_content)
        ELSE Strip(new_content)
  IN with_newline(
       extract_frontmatter(full_content)
       \o JoinLines(replaced_parts(sections, section.index, updated_section, 1)))

update_section_content(full_content, sections, section, new_content) ==
  LET updated_section ==
        IF section.heading # NoHeading
        THEN headed_section(section.heading, new_content)
        ELSE Strip(new_content)
  IN extract_frontmatter(full_content)
     \o JoinLines(replaced_parts(sections, section.index, updated_section, 1))

\* "<!-- NOTE: {timestamp_str} - {note_text} -->"
note_comment(timestamp_str, note_text) ==
  <<"<", "!", "-", "-", " ", "N", "O", "T", "E", ":", " ">> \o timestamp_str
  \o <<" ", "-", " ">> \o note_text \o <<" ", "-", "-", ">">>

add_note_content(full_content, sections, section, timestamp_str, note_text) ==
  LET updated_section == RStrip(section.content) \o <<"\n", "\n">>
                         \o note_comment(timestamp_str, note_text)
  IN extract_frontmatter(full_content)
     \o JoinLines(replaced_parts(sections, section.index, updated_section, 1))

\* bound of the model: the WriterService calls of one behaviour
MaxCalls == 2

\* the chapter numbers of the book, and the numbers a caller may pass
ChapterNumbers == {1}
ChapterIndices == {1, 2}

\* what the chapter file may hold at first: plain text; a frontmatter block
\* and one section; a preamble and two sections with a link and no fence;
\* text with a code fence left open
ChapterTexts ==
  { <<"x", "\n">>,
    <<"-", "-", "-", "\n", "t", "\n", "-", "-", "-", "\n", "\n",
      "#", "#", " ", "A", "\n", "\n", "x", "\n">>,
    <<"p", "\n", "\n", "#", "#", " ", "A", "\n", "\n", "[", "a", "]", "\n", "\n",
      "#", "#", " ", "B", "\n", "\n", "x", "\n">>,
    <<BT, BT, BT, "\n", "x", "\n">> }

\* the texts a caller may pass: padded text, a code fence, an open bracket
NewTexts ==
  { <<" ", "e", "\n">>, <<BT, BT, BT>>, <<"[", "e">> }

\* the section identifiers a caller may pass
SectionIds == { IntId(1), StrId(<<"b">>), StrId(<<"0">>) }

\* strftime("%Y-%m-%dT%H:%M:%S") of the time of the call
Timestamps == { <<"2", "0", "T", "0", "1">> }

NoEditResult == EditResult(FALSE, "", <<>>, FALSE, NoDiff)
NoOutcome ==
  [op |-> "none", chapter_index |-> 0, dry_run |-> FALSE, create_backup |-> FALSE,
   raised |-> "none", not_found |-> "none",
   result |-> NoEditResult, original |-> <<>>, modified |-> <<>>, steps |-> <<>>]

EditInit ==
  /\ chapter \in ChapterTexts
  /\ backups = <<>>
  /\ request \in [content : NewTexts, section_id : SectionIds]
  /\ outcome = NoOutcome
  /\ calls = 0
  /\ TocIdle /\ SplitIdle /\ TextIdle /\ NavIdle /\ BookIdle

\* the call returns: its steps on storage are taken, in order
Return(op, chapter_index, dry_run, create_backup, original, modified, r) ==
  LET store == apply_steps([chapter |-> chapter, backups |-> backups], r.steps)
  IN /\ chapter' = store.chapter
     /\ backups' = store.backups
     /\ outcome' = [op |-> op, chapter_index |-> chapter_index,
                    dry_run |-> dry_run, create_backup |-> create_backup,
                    raised |-> "none", not_found |-> "none", result |-> r.result,
                    original |-> original, modified |-> modified,
                    steps |-> r.steps]
     /\ calls' = calls + 1
     /\ UNCHANGED <<request, tocVars, splitVars, textVars, navVars, bookVars>>

\* Raise with a backup of the chapter file taken before the error
Raise_backup_first(op, chapter_index, dry_run, create_backup, error) ==
  /\ outcome' = [NoOutcome EXCEPT !.op = op, !.chapter_index = chapter_index,
                                  !.dry_run = dry_run,
                                  !.create_backup = create_backup,
                                  !.raised = error,
                                  !.not_found =
                                     IF chapter_index \notin ChapterNumbers
                                     THEN "chapter" ELSE "section"]
  /\ backups' = IF create_backup THEN Append(backups, chapter) ELSE backups
  /\ calls' = calls + 1
  /\ UNCHANGED <<chapter, request, tocVars, splitVars, textVars, navVars, bookVars>>

\* the call raises; the KeyError names the chapter number when the book has
\* no such chapter (the first test of every operation), else the section
\* identifier
Raise(op, chapter_index, dry_run, create_backup, error) ==
  /\ outcome' = [NoOutcome EXCEPT !.op = op, !.chapter_index = chapter_index,
                                  !.dry_run = dry_run,
                                  !.create_backup = create_backup,
                                  !.raised = error,
                                  !.not_found =
                                     IF chapter_index \notin ChapterNumbers
                                     THEN "chapter" ELSE "section"]
  /\ calls' = calls + 1
  /\ UNCHANGED <<chapter, backups, request, tocVars, splitVars, textVars, navVars, bookVars>>

update_chapter_content(chapter_index, new_content, dry_run, create_backup) ==
  IF chapter_index \notin ChapterNumbers
  THEN Raise("update_chapter_content", chapter_index, dry_run, create_backup, "KeyError")
  ELSE LET original_content == chapter
           modified_content == update_chapter_modified(original_content, new_content)
       IN Return("update_chapter_content", chapter_index, dry_run, create_backup,
                 original_content, modified_content,
                 finish_edit(original_content, modified_content, dry_run, create_backup))

append_to_chapter(chapter_index, content, dry_run, create_backup) ==
  IF chapter_index \notin ChapterNumbers
  THEN Raise("append_to_chapter", chapter_index, dry_run, create_backup, "KeyError")
  ELSE LET original_content == chapter
           modified_content == append_modified(original_content, content)
       IN Return("append_to_chapter", chapter_index, dry_run, create_backup,
                 original_content, modified_content,
                 finish_edit(original_content, modified_content, dry_run, create_backup))

insert_at_section(chapter_index, section_id, content, position, dry_run, create_backup) ==
  LET full_content == chapter
      sections == parse_sections(strip_frontmatter(full_content))
      section == get_section(sections, section_id)
  IN IF chapter_index \notin ChapterNumbers \/ section = NoSection
     THEN Raise("insert_at_section", chapter_index, dry_run, create_backup, "KeyError")
     ELSE LET modified_content ==
                insert_modified(full_content, sections, section, content, position)
          IN Return("insert_at_section", chapter_index, dry_run, create_backup,
                    full_content, modified_content,
                    finish_edit(full_content, modified_content, dry_run, create_backup))

replace_section(chapter_index, section_id, new_content, preserve_heading, dry_run, create_backup) ==
  LET full_content == chapter
      sections == parse_sections(strip_frontmatter(full_content))
      section == get_section(sections, section_id)
  IN IF chapter_index \notin ChapterNumbers \/ section = NoSection
     THEN Raise("replace_section", chapter_index, dry_run, create_backup, "KeyError")
     ELSE LET modified_content ==
                replace_modified(full_content, sections, section, new_content,
                                 preserve_heading)
          IN Return("replace_section", chapter_index, dry_run, create_backup,
                    full_content, modified_content,
                    finish_edit(full_content, modified_content, dry_run, create_backup))

update_section(chapter_index, section_id, new_content) ==
  LET full_content == chapter
      sections == parse_sections(strip_frontmatter(full_content))
      section == get_section(sections, section_id)
  IN IF chapter_index \notin ChapterNumbers \/ section = NoSection
     THEN Raise("update_section", chapter_index, FALSE, FALSE, "KeyError")
     ELSE LET new_chapter_content ==
                update_section_content(full_content, sections, section, new_content)
          IN Return("update_section", chapter_index, FALSE, FALSE, full_content,
                    new_chapter_content, finish_write(new_chapter_content))

add_note(chapter_index, section_id, note_text, timestamp_str) ==
  LET full_content == chapter
      sections == parse_sections(strip_frontmatter(full_content))
      section == get_section(sections, section_id)
  IN IF chapter_index \notin ChapterNumbers \/ section = NoSection
     THEN Raise("add_note", chapter_index, FALSE, FALSE, "KeyError")
     ELSE LET new_chapter_content ==
                add_note_content(full_content, sections, section, timestamp_str,
                                 note_text)
          IN Return("add_note", chapter_index, FALSE, FALSE, full_content,
                    new_chapter_content, finish_write(new_chapter_content))

UpdateChapterContent ==
  /\ calls < MaxCalls
  /\ \E chapter_index \in ChapterIndices, dry_run \in BOOLEAN, create_backup \in BOOLEAN :
       update_chapter_content(chapter_index, request.content, dry_run, create_backup)

AppendToChapter ==
  /\ calls < MaxCalls
  /\ \E chapter_index \in ChapterIndices, dry_run \in BOOLEAN, create_backup \in BOOLEAN :
       append_to_chapter(chapter_index, request.content, dry_run, create_backup)

InsertAtSection ==
  /\ calls < MaxCalls
  /\ \E chapter_index \in ChapterIndices, position \in {"before", "after"},
        dry_run \in BOOLEAN, create_backup \in BOOLEAN :
       insert_at_section(chapter_index, request.section_id, request.content,
                         position, dry_run, create_backup)

ReplaceSection ==
  /\ calls < MaxCalls
  /\ \E chapter_index \in ChapterIndices, preserve_heading \in BOOLEAN,
        dry_run \in BOOLEAN, create_backup \in BOOLEAN :
       replace_section(chapter_index, request.section_id, request.content,
                       preserve_heading, dry_run, create_backup)

UpdateSection ==
  /\ calls < MaxCalls
  /\ \E chapter_index \in ChapterIndices :
       update_section(chapter_index, request.section_id, request.content)

AddNote ==
  /\ calls < MaxCalls
  /\ \E chapter_index \in ChapterIndices, timestamp_str \in Timestamps :
       add_note(chapter_index, request.section_id, request.content, timestamp_str)

EditNext ==
  \/ UpdateChapterContent \/ AppendToChapter \/ InsertAtSection
  \/ ReplaceSection \/ UpdateSection \/ AddNote

SpecEdit == EditInit /\ [][EditNext]_vars


(***************************************************************************)
(* TocService (mdbook/services/toc_service.py): the headings of a chapter   *)
(* as a hierarchy.  The entries are kept by number, in the order they are   *)
(* found: nodes[i].children and result hold entry numbers.                  *)
(***************************************************************************)

\* HEADING_PATTERN  ^(#{2,4})\s+(.+)$  (re.MULTILINE) tried at the line start
\* i: the run of hashes, then whitespace (newlines included), then the rest
\* of the line.  When the whitespace runs to the end of the text, \s+ gives
\* back its last character that is not a newline to (.+).
heading_match(content, i) ==
  LET n == Len(content)
      hashes == FirstNotInFrom(content, {"#"}, i) - i
      w == FirstNotInFrom(content, WS, i + hashes)
      t == IF w <= n THEN w ELSE LastNotInUpTo(content, {"\n"}, n)
      nl == IndexFrom(content, "\n", t)
      end == IF nl = 0 THEN n + 1 ELSE nl
      ok == hashes \in 2..4 /\ w > i + hashes /\ t > i + hashes
  IN IF ok
     THEN [ok |-> TRUE, hashes |-> hashes,
           title |-> SubSeq(content, t, end - 1), end |-> end]
     ELSE [ok |-> FALSE, hashes |-> 0, title |-> <<>>, end |-> i]

\* HEADING_PATTERN.finditer(content), from the line start i on: a match
\* starts at a line start, the search goes on after the match
RECURSIVE heading_matches(_, _)
heading_matches(content, i) ==
  IF i > Len(content) THEN <<>>
  ELSE LET m == heading_match(content, i)
           nl == IndexFrom(content, "\n", m.end)
       IN (IF m.ok THEN <<m>> ELSE <<>>)
          \o heading_matches(content, IF nl = 0 THEN Len(content) + 1 ELSE nl + 1)

\* a hierarchy in which every heading is filed under the heading before it
build_hierarchy_under_previous(entries) ==
  [nodes |-> [i \in 1..Len(entries) |->
                [entries[i] EXCEPT !.children =
                   IF i < Len(entries) THEN <<i + 1>> ELSE <<>>]],
   result |-> IF entries = <<>> THEN <<>> ELSE <<1>>]

\* _build_hierarchy: the stack holds the numbers of the open entries
build_hierarchy(entries) ==
  LET RECURSIVE pop(_, _)
      pop(stack, level) ==
        IF stack # <<>> /\ entries[stack[Len(stack)]].level >= level
        THEN pop(SubSeq(stack, 1, Len(stack) - 1), level)
        ELSE stack
      RECURSIVE loop(_, _, _)
      loop(i, h, stack) ==
        IF i > Len(entries) THEN h
        ELSE LET open == pop(stack, entries[i].level)
             IN IF open # <<>>
                THEN loop(i + 1,
                          [h EXCEPT !.nodes[open[Len(open)]].children =
                                      Append(@, i)],
                          Append(open, i))
                ELSE loop(i + 1, [h EXCEPT !.result = Append(@, i)],
                          Append(open, i))
  IN loop(1, [nodes |-> entries, result |-> <<>>], <<>>)

\* _parse_headings: a TocEntry for every match, with level 1 for "##", 2 for
\* "###" and 3 for "####", then the hierarchy.  TocService._slugify has the
\* body of the writer's _slugify.
parse_headings(content) ==
  LET found == heading_matches(content, 1)
  IN build_hierarchy(
       [k \in 1..Len(found) |->
          [title |-> Strip(found[k].title), level |-> found[k].hashes - 1,
           anchor |-> slugify(Strip(found[k].title)), children |-> <<>>]])


(***************************************************************************)
(* The text operations one at a time: a call is drawn with its arguments   *)
(* (input), the operation is applied once, and what it built is kept       *)
(* (output).  The edit operations run on a book whose chapter 1 holds      *)
(* input.doc, with dry_run and create_backup both False.                   *)
(***************************************************************************)

\* bound of the model: the pieces a text handed to an operation is made of
MaxTextPieces == 4

\* the texts made by joining up to n of the pieces
TextsOf(pieces, n) ==
  { Concat(t) : t \in UNION { [1..k -> pieces] : k \in 0..n } }

NoInput ==
  [kind |-> "none", doc |-> <<>>, text |-> <<>>, section_id |-> IntId(0),
   position |-> "", preserve_heading |-> FALSE]
NoOutput ==
  [done |-> FALSE, raised |-> "none", text |-> <<>>, steps |-> <<>>,
   warnings |-> <<>>, section |-> NoSection, toc |-> [nodes |-> <<>>, result |-> <<>>]]

\* the calls of update_chapter_content: chapter texts of delimiter lines,
\* a line that resembles one and plain lines; new texts with and without
\* leading newlines and a final newline
UpdateChapterInputs(n) ==
  { [NoInput EXCEPT !.kind = "update_chapter_content", !.doc = d, !.text = t] :
      d \in TextsOf({ <<"-", "-", "-", "\n">>, <<"-", "-", "-", "x", "\n">>,
                      <<"t", "\n">>, <<"o", "\n">> }, n),
      t \in { <<"\n", "\n", "e">>, <<"e", "\n">> } }

\* chapter texts with sections: with or without a frontmatter block, then
\* heading lines and text lines
SectionedTexts(n) ==
  { f \o b : f \in { <<>>, <<"-", "-", "-", "\n", "t", "\n", "-", "-", "-", "\n">> },
             b \in TextsOf({ <<"#", "#", " ", "A", "\n">>, <<"#", "#", " ", "B", "\n">>,
                             <<"o", "\n">> }, n) }

\* the calls of replace_section
ReplaceSectionInputs(n) ==
  { [NoInput EXCEPT !.kind = "replace_section", !.doc = d, !.text = <<" ", "e", "\n">>,
                    !.section_id = id, !.preserve_heading = preserve_heading] :
      d \in SectionedTexts(n), id \in { IntId(0), IntId(1), StrId(<<"b">>) },
      preserve_heading \in BOOLEAN }

\* the calls of insert_at_section
InsertAtSectionInputs(n) ==
  { [NoInput EXCEPT !.kind = "insert_at_section", !.doc = d, !.text = <<" ", "e", "\n">>,
                    !.section_id = id, !.position = position] :
      d \in SectionedTexts(n), id \in { IntId(0), IntId(1), StrId(<<"b">>) },
      position \in {"before", "after"} }

\* the calls of append_to_chapter: chapter texts that end in text, in a
\* newline, in blank lines or in a space; new texts that are empty, blank,
\* plain, or wrapped in newlines
AppendToChapterInputs(n) ==
  { [NoInput EXCEPT !.kind = "append_to_chapter", !.doc = d, !.text = t] :
      d \in TextsOf({ <<"x">>, <<"\n">>, <<" ">> }, n),
      t \in { <<>>, <<" ">>, <<"e">>, <<"\n", "e", "\n">> } }

\* the texts handed to _validate_markdown: code fences, lone backticks,
\* brackets and a link text
ValidateMarkdownInputs(n) ==
  { [NoInput EXCEPT !.kind = "validate_markdown", !.doc = d] :
      d \in TextsOf({ FENCE, <<BT>>, <<"[">>, <<"]">>, <<"[", "x", "]">> },
                    n) }

\* bound of the model: the characters of a text handed to _slugify
MaxSlugLen == 5

\* the texts handed to _slugify: a capital letter, a space, a hyphen, an
\* underscore and a punctuation mark, in any order
SlugifyInputs(n) ==
  { [NoInput EXCEPT !.kind = "slugify", !.doc = d] :
      d \in UNION { [1..k -> {"A", " ", "-", "_", "!"}] : k \in 0..n } }

\* the calls of get_section: chapters whose headings hold a digit or a
\* letter in either case; identifiers that are an int, a string of digits
\* or a letter
GetSectionInputs(n) ==
  { [NoInput EXCEPT !.kind = "get_section", !.doc = d, !.section_id = id] :
      d \in TextsOf({ <<"#", "#", " ", "A", "2", "\n">>, <<"#", "#", " ", "a", "\n">>,
                      <<"o", "\n">> }, n),
      id \in { IntId(1), IntId(2), StrId(<<"2">>), StrId(<<"1">>), StrId(<<"a">>) } }

\* the calls of extract_chapter_toc: chapter texts of headings of two, three,
\* four and five hashes
ExtractChapterTocInputs(n) ==
  { [NoInput EXCEPT !.kind = "extract_chapter_toc", !.doc = d] :
      d \in TextsOf({ <<"#", "#", " ", "A", "\n">>, <<"#", "#", "#", " ", "B", "\n">>,
                      <<"#", "#", "#", "#", " ", "C", "\n">>,
                      <<"#", "#", "#", "#", "#", " ", "E", "\n">> }, n) }

\* the calls, with texts of up to pieces pieces and, for _slugify, of up to
\* chars characters
TextInputs(pieces, chars) ==
  UpdateChapterInputs(pieces) \cup ReplaceSectionInputs(pieces)
  \cup InsertAtSectionInputs(pieces) \cup AppendToChapterInputs(pieces)
  \cup ValidateMarkdownInputs(pieces) \cup SlugifyInputs(chars)
  \cup GetSectionInputs(pieces) \cup ExtractChapterTocInputs(pieces)

TextInit ==
  /\ input \in TextInputs(MaxTextPieces, MaxSlugLen)
  /\ output = NoOutput
  /\ TocIdle /\ SplitIdle /\ EditIdle /\ NavIdle /\ BookIdle

\* an edit operation that got as far as its modified text: validation, and
\* the write when it passes
Edited(modified_content) ==
  LET r == finish_edit(input.doc, modified_content, FALSE, FALSE)
  IN /\ output' = [NoOutput EXCEPT !.done = TRUE, !.text = modified_content,
                                   !.steps = r.steps,
                                   !.warnings = r.result.warnings]
     /\ UNCHANGED <<input, tocVars, splitVars, editVars, navVars, bookVars>>

\* the operation raises KeyError
NotFound ==
  /\ output' = [NoOutput EXCEPT !.done = TRUE, !.raised = "KeyError"]
  /\ UNCHANGED <<input, tocVars, splitVars, editVars, navVars, bookVars>>

ApplyUpdateChapterContent ==
  /\ input.kind = "update_chapter_content" /\ ~output.done
  /\ Edited(update_chapter_modified(input.doc, input.text))

ApplyReplaceSection ==
  /\ input.kind = "replace_section" /\ ~output.done
  /\ LET sections == parse_sections(strip_frontmatter(input.doc))
         section == get_section(sections, input.section_id)
     IN IF section = NoSection THEN NotFound
        ELSE Edited(replace_modified(input.doc, sections, section, input.text,
                                     input.preserve_heading))

ApplyInsertAtSection ==
  /\ input.kind = "insert_at_section" /\ ~output.done
  /\ LET sections == parse_sections(strip_frontmatter(input.doc))
         section == get_section(sections, input.section_id)
     IN IF section = NoSection THEN NotFound
        ELSE Edited(insert_modified(input.doc, sections, section, input.text,
                                    input.position))

ApplyAppendToChapter ==
  /\ input.kind = "append_to_chapter" /\ ~output.done
  /\ Edited(append_modified(input.doc, input.text))

ApplyValidateMarkdown ==
  /\ input.kind = "validate_markdown" /\ ~output.done
  /\ output' = [NoOutput EXCEPT !.done = TRUE,
                                !.warnings = validate_markdown(input.doc)]
  /\ UNCHANGED <<input, tocVars, splitVars, editVars, navVars, bookVars>>

ApplySlugify ==
  /\ input.kind = "slugify" /\ ~output.done
  /\ output' = [NoOutput EXCEPT !.done = TRUE, !.text = slugify(input.doc)]
  /\ UNCHANGED <<input, tocVars, splitVars, editVars, navVars, bookVars>>

ApplyGetSection ==
  /\ input.kind = "get_section" /\ ~output.done
  /\ output' = [NoOutput EXCEPT
                  !.done = TRUE,
                  !.section = get_section(
                                parse_sections(strip_frontmatter(input.doc)),
                                input.section_id)]
  /\ UNCHANGED <<input, tocVars, splitVars, editVars, navVars, bookVars>>

\* extract_chapter_toc(chapter, content) with the content handed in: the
\* entries of the ChapterToc it returns
ExtractChapterToc ==
  /\ input.kind = "extract_chapter_toc" /\ ~output.done
  /\ output' = [NoOutput EXCEPT !.done = TRUE, !.toc = parse_headings(input.doc)]
  /\ UNCHANGED <<input, tocVars, splitVars, editVars, navVars, bookVars>>

TextNext ==
  \/ ApplyUpdateChapterContent \/ ApplyReplaceSection \/ ApplyInsertAtSection
  \/ ApplyAppendToChapter \/ ApplyValidateMarkdown
  \/ ApplySlugify \/ ApplyGetSection \/ ExtractChapterToc

SpecText == TextInit /\ [][TextNext]_vars

(***************************************************************************)
(* BookReader (src/book_reader.py): the chapters discovered when the       *)
(* reader is built and the chapter it shows.  Chapter 0 is the overview.   *)
(***************************************************************************)

\* _discover_chapters looks for chapter-01 .. chapter-12; the model has the
\* chapters up to MaxChapter
MaxChapter == 4

\* sorted(cs)
RECURSIVE Sorted(_)
Sorted(cs) ==
  IF cs = {} THEN <<>>
  ELSE LET least == CHOOSE c \in cs : \A d \in cs : c <= d
       IN <<least>> \o Sorted(cs \ {least})

\* sorted([c for c in self.chapters.keys() if c > 0])
available_chapters == Sorted({c \in chapters : c > 0})

\* available_chapters.index(self.current_chapter) if it is there, else 0
\* (Python indices, from 0)
current_index ==
  IF \E i \in 1..Len(available_chapters) : available_chapters[i] = current_chapter
  THEN (CHOOSE i \in 1..Len(available_chapters) :
          available_chapters[i] = current_chapter) - 1
  ELSE 0

\* BookReader.__init__, on a book directory with any of the chapters
NavInit ==
  /\ chapters \in SUBSET (0..MaxChapter)
  /\ current_chapter = 1
  /\ console = ""
  /\ TocIdle /\ SplitIdle /\ EditIdle /\ TextIdle /\ BookIdle

\* next_chapter
NextChapter ==
  /\ IF current_index < Len(available_chapters) - 1
     THEN /\ current_chapter' = available_chapters[current_index + 2]
          /\ console' = ""
     ELSE /\ console' = "You're at the last chapter"
          /\ UNCHANGED current_chapter
  /\ UNCHANGED <<chapters, tocVars, splitVars, editVars, textVars, bookVars>>

\* previous_chapter
PreviousChapter ==
  /\ IF current_index > 0
     THEN /\ current_chapter' = available_chapters[current_index]
          /\ console' = ""
     ELSE /\ console' = "You're at the first chapter"
          /\ UNCHANGED current_chapter
  /\ UNCHANGED <<chapters, tocVars, splitVars, editVars, textVars, bookVars>>

\* jump_to_chapter(chapter_num)
JumpToChapter ==
  \E chapter_num \in 0..(MaxChapter + 1) :
    /\ IF chapter_num \in chapters
       THEN /\ current_chapter' = chapter_num
            /\ console' = ""
       ELSE /\ console' = "Chapter not found"
            /\ UNCHANGED current_chapter
    /\ UNCHANGED <<chapters, tocVars, splitVars, editVars, textVars, bookVars>>

NavNext == NextChapter \/ PreviousChapter \/ JumpToChapter

SpecNav == NavInit /\ [][NavNext]_vars


(***************************************************************************)
(* WriterService.add_chapter and WriterService.update_toc                  *)
(* (writer_service.py): the chapters directory, Book.chapters and          *)
(* SUMMARY.md.  A chapter file is [name, text]; a Chapter is its file      *)
(* name, title, number and draft flag.                                     *)
(***************************************************************************)

\* bound of the model: the chapter files a book gets to
MaxBookChapters == 3

\* f"{n:0{width}d}": the decimal digits of n, padded with zeros
RECURSIVE format_int(_, _)
format_int(n, width) ==
  LET digit == <<<<"0","1","2","3","4","5","6","7","8","9">>[(n % 10) + 1]>>
  IN IF n >= 10 \/ width > 1 THEN format_int(n \div 10, width - 1) \o digit
     ELSE digit

\* a numbering that counts the "*.md" files
get_next_chapter_number_by_count(dir_files) ==
  LET md(f) == EndsWith(f.name, <<".", "m", "d">>)
  IN Len(SelectSeq(dir_files, md)) + 1

\* _get_next_chapter_number, the directory being there: one more than the
\* largest number that a "*.md" file's stem starts with (re.match ^(\d+))
get_next_chapter_number(dir_files) ==
  LET md(f) == EndsWith(f.name, <<".", "m", "d">>)
      prefix(f) == ToInt(SubSeq(f.name, 1, DigitRun(f.name, 1)))
      nums == {prefix(dir_files[i]) :
                 i \in {j \in 1..Len(dir_files) : md(dir_files[j])}} \cup {0}
  IN (CHOOSE max_num \in nums : \A k \in nums : k <= max_num) + 1

\* sorted(chapters, key=lambda c: (0 if c.is_intro else 1, c.number or 0)),
\* no chapter being the intro: a stable sort by number
RECURSIVE sorted_by_number(_)
sorted_by_number(cs) ==
  IF cs = <<>> THEN <<>>
  ELSE LET rest == sorted_by_number(SubSeq(cs, 1, Len(cs) - 1))
           last == cs[Len(cs)]
           k == Cardinality({i \in 1..Len(rest) : rest[i].number <= last.number})
       IN SubSeq(rest, 1, k) \o <<last>> \o SubSeq(rest, k + 1, Len(rest))

\* str(chapter.file_path.relative_to(book.root_path))
rel_path(c) == <<"c","h","a","p","t","e","r","s","/">> \o c.name

\* f"{prefix}[{chapter.title}]({rel_path})"
toc_line(c) ==
  (IF c.draft THEN <<"-"," ","[","D","R","A","F","T","]"," ">> ELSE <<"-"," ">>)
  \o <<"[">> \o c.title \o <<"]", "(">> \o rel_path(c) \o <<")">>

\* link_pattern.search(line) of  \[.*?\]\(([^)]+)\) : group 1 of the
\* leftmost match, <<>> without a match.  The match starts at the first
\* "[" and takes the first "](" after it that a character other than ")"
\* and, later, a ")" follow.
first_link_path(line) ==
  LET n == Len(line)
      open == IndexFrom(line, "[", 1)
      closes(j) == /\ j > open /\ j + 2 <= n
                   /\ line[j] = "]" /\ line[j + 1] = "(" /\ line[j + 2] # ")"
                   /\ IndexFrom(line, ")", j + 3) # 0
  IN IF open # 0 /\ \E j \in 1..n : closes(j)
     THEN LET j == CHOOSE j \in 1..n : closes(j) /\ \A k \in 1..(j - 1) : ~closes(k)
          IN SubSeq(line, j + 2, IndexFrom(line, ")", j + 3) - 1)
     ELSE <<>>

\* _parse_existing_toc: the lines, and the path of the first link of each
parse_existing_toc(content) ==
  LET lines == SplitLines(content)
  IN [lines |-> lines,
      existing_paths |-> {first_link_path(lines[i]) : i \in 1..Len(lines)} \ {<<>>}]

\* _merge_new_chapters_into_toc
merge_new_chapters_into_toc(chs, content) ==
  LET toc == parse_existing_toc(content)
      lines == toc.lines
      is_new(c) == rel_path(c) \notin toc.existing_paths
      new_chapters == sorted_by_number(SelectSeq(chs, is_new))
      blank(i) == Strip(lines[i]) = <<>>
      insert_pos == IF \E i \in 1..Len(lines) : ~blank(i)
                    THEN CHOOSE i \in 1..Len(lines) :
                           ~blank(i) /\ \A k \in (i + 1)..Len(lines) : blank(k)
                    ELSE 0
      new_lines == [i \in 1..Len(new_chapters) |-> toc_line(new_chapters[i])]
  IN IF new_chapters = <<>> THEN JoinLines(lines)
     ELSE JoinLines(SubSeq(lines, 1, insert_pos) \o new_lines \o << <<>> >>)

\* _generate_flat_toc, of a book of title "T"
generate_flat_toc(chs) ==
  LET sorted_chapters == sorted_by_number(chs)
  IN JoinLines(<< <<"#", " ", "T">>, <<>> >>
               \o [i \in 1..Len(sorted_chapters) |-> toc_line(sorted_chapters[i])]
               \o << <<>> >>)

\* update_toc: the text written to SUMMARY.md.  Book.chapters is empty only
\* when the chapters directory has no file, so the scan of the directory
\* finds no chapter.
update_toc(chs, preserve_structure) ==
  IF preserve_structure /\ summary_md.exists
  THEN [mode |-> "merge", before |-> summary_md.text,
        written |-> merge_new_chapters_into_toc(chs, summary_md.text)]
  ELSE [mode |-> "flat", before |-> summary_md.text,
        written |-> generate_flat_toc(chs)]

\* the chapters a book may have to begin with and the SUMMARY.md it may
\* have: none, or an outline written by hand
BookInit ==
  /\ \E had \in SUBSET {1, 2} :
       LET pool == << [name |-> <<"0","1","-","a",".","m","d">>, title |-> <<"A">>,
                       number |-> 1, draft |-> FALSE],
                      [name |-> <<"0","3","-","b",".","m","d">>, title |-> <<"B">>,
                       number |-> 3, draft |-> FALSE] >>
           kept(c) == c.number \in {pool[i].number : i \in had}
       IN /\ book_chapters = SelectSeq(pool, kept)
          /\ chapter_files = [i \in 1..Len(SelectSeq(pool, kept)) |->
                                [name |-> SelectSeq(pool, kept)[i].name,
                                 text |-> <<"#", " ">> \o SelectSeq(pool, kept)[i].title]]
  /\ summary_md \in
       { [exists |-> FALSE, text |-> <<>>] } \cup
       { [exists |-> TRUE, text |-> JoinLines(t)] :
           t \in { << <<"#"," ","T">>, <<>>, toc_line([name |-> <<"0","1","-","a",".","m","d">>,
                                                     title |-> <<"A">>, draft |-> FALSE]),
                      <<>> >>,
                   << <<"#","#"," ","P">>,
                      <<" "," ">> \o toc_line([name |-> <<"0","3","-","b",".","m","d">>,
                                               title |-> <<"B">>, draft |-> FALSE]),
                      <<>>, <<>> >>,
                   << toc_line([name |-> <<"0","1","-","a",".","m","d">>,
                                title |-> <<"A">>, draft |-> FALSE])
                      \o <<" ">> \o
                      toc_line([name |-> <<"0","3","-","b",".","m","d">>,
                                title |-> <<"B">>, draft |-> TRUE]) >> } }
  /\ toc_update = [mode |-> "none", before |-> <<>>]
  /\ TocIdle /\ SplitIdle /\ EditIdle /\ TextIdle /\ NavIdle

\* add_chapter(book, title, draft): the chapter file is written (over a file
\* of the same name, if there is one), the Chapter joins book.chapters and
\* update_toc(book) runs
AddChapter ==
  \E title \in { <<"A">>, <<"C", " ", "d">> }, draft \in BOOLEAN :
    LET chapter_num == get_next_chapter_number(chapter_files)
        filename == format_int(chapter_num, 2) \o <<"-">> \o slugify(title)
                    \o <<".", "m", "d">>
        today == <<"2","0","2","6","-","1","1","-","0","1">>
        content ==
          JoinLines(<< <<"-","-","-">>, <<"t","i","t","l","e",":"," ">> \o title,
                       <<"c","h","a","p","t","e","r",":"," ">> \o format_int(chapter_num, 1),
                       <<"d","a","t","e",":"," ">> \o today >>
                    \o (IF draft THEN << <<"d","r","a","f","t",":"," ","t","r","u","e">> >>
                        ELSE <<>>)
                    \o << <<"-","-","-">>, <<>>, <<"#", " ">> \o title, <<>> >>)
        same(f) == f.name = filename
        other(f) == f.name # filename
        chs == Append(book_chapters,
                      [name |-> filename, title |-> title, number |-> chapter_num,
                       draft |-> draft])
        u == update_toc(chs, TRUE)
    IN /\ Len(chapter_files) < MaxBookChapters
       /\ chapter_files' =
            IF SelectSeq(chapter_files, same) # <<>>
            THEN [i \in 1..Len(chapter_files) |->
                    IF same(chapter_files[i])
                    THEN [name |-> filename, text |-> content]
                    ELSE chapter_files[i]]
            ELSE Append(chapter_files, [name |-> filename, text |-> content])
       /\ book_chapters' = chs
       /\ summary_md' = [exists |-> TRUE, text |-> u.written]
       /\ toc_update' = [mode |-> u.mode, before |-> u.before]
       /\ UNCHANGED <<tocVars, splitVars, editVars, textVars, navVars>>

\* update_toc(book, preserve_structure)
UpdateToc ==
  \E preserve_structure \in BOOLEAN :
    LET u == update_toc(book_chapters, preserve_structure)
    IN /\ summary_md' = [exists |-> TRUE, text |-> u.written]
       /\ toc_update' = [mode |-> u.mode, before |-> u.before]
       /\ UNCHANGED <<chapter_files, book_chapters,
                      tocVars, splitVars, editVars, textVars, navVars>>

BookNext == AddChapter \/ UpdateToc

SpecBook == BookInit /\ [][BookNext]_vars


(***************************************************************************)
(* Properties of the table-of-contents merge                               *)
(***************************************************************************)

\* the set of the elements of a sequence
Range(seq) == {seq[i] : i \in 1..Len(seq)}

\* the ids of the entries below entry i of st
RECURSIVE Descendants(_, _)
Descendants(st, i) ==
  Range(st.nodes[i].children)
    \cup UNION {Descendants(st, c) : c \in Range(st.nodes[i].children)}

\* the normal form paths are compared in: backslashes to slashes, a
\* leading "./" stripped, lower-cased
ComparedForm(p) ==
  LET a == [i \in 1..Len(p) |-> IF p[i] = "\\" THEN "/" ELSE p[i]]
      b == IF Len(a) >= 2 /\ a[1] = "." /\ a[2] = "/"
           THEN [i \in 1..(Len(a) - 2) |-> a[i + 2]] ELSE a
  IN [i \in 1..Len(b) |-> ToLowerChar(b[i])]

\* C1: running the structure-preserving update a second time on the
\* outline the first run wrote, with the same discovered paths, adds no
\* path: the second run reports every path as existing.
C1_MergeIdempotent == runs >= 2 => result.added = <<>>

\* C2: the structure-preserving merge keeps every entry of the existing
\* tree with its title, path, parent and sibling order, and each added path
\* is a top-level leaf (indent level 0, no children, nobody's child) placed
\* after all the pre-existing top-level entries; the outline written keeps
\* the existing entries' nesting when it is read back.
C2_MergeKeepsStructure ==
  result.mode = "preserve" =>
    LET old == parse_summary_structure(before)
        n == Len(old.nodes)
        t == Len(old.entries)
        k == Len(result.added)
        reread == parse_summary_structure(summary)
    IN /\ Len(tree.nodes) = n + k
       /\ \A id \in 1..n : tree.nodes[id] = old.nodes[id]
       /\ Len(tree.entries) = t + k
       /\ SubSeq(tree.entries, 1, t) = old.entries
       /\ \A j \in 1..k :
            /\ tree.entries[t + j] = n + j
            /\ tree.nodes[n + j].path = result.added[j]
            /\ tree.nodes[n + j].indent_level = 0
            /\ tree.nodes[n + j].children = <<>>
            /\ ~tree.nodes[n + j].is_part_header
            /\ \A id \in 1..(n + k) : (n + j) \notin Range(tree.nodes[id].children)
       /\ Len(reread.entries) >= t
       /\ SubSeq(Shape(reread, reread.entries), 1, t) = Shape(old, old.entries)

\* C2 witness: a merge added a path to an outline whose last top-level
\* entry has a child.
C2_Witness ==
  /\ result.mode = "preserve"
  /\ result.added # <<>>
  /\ LET old == parse_summary_structure(before)
     IN /\ old.entries # <<>>
        /\ old.nodes[old.entries[Len(old.entries)]].children # <<>>

\* C3: the merge partitions the discovered paths, in discovered order, into
\* 'existing' (the normal form equals the normal form of a path stored
\* anywhere in the existing tree) and 'added' (all the others).
C3_MergePartitions ==
  result.mode = "preserve" =>
    LET old == parse_summary_structure(before)
        stored == {old.nodes[i].path :
                     i \in {j \in 1..Len(old.nodes) : old.nodes[j].path # NoPath}}
        known(p) == \E q \in stored : ComparedForm(q) = ComparedForm(p)
        unknown(p) == ~known(p)
    IN /\ result.existing = SelectSeq(result.discovered, known)
       /\ result.added = SelectSeq(result.discovered, unknown)
       /\ Len(result.added) + Len(result.existing) = Len(result.discovered)

\* C3 witness: one merge both added a path and found a discovered path
\* existing that is stored, in another spelling, on a nested entry.
C3_Witness ==
  /\ result.mode = "preserve"
  /\ result.added # <<>>
  /\ LET old == parse_summary_structure(before)
     IN \E p \in Range(result.existing) :
          \E i \in 1..Len(old.nodes) :
            /\ old.nodes[i].indent_level > 0
            /\ i \notin Range(old.entries)
            /\ old.nodes[i].path # p
            /\ ComparedForm(old.nodes[i].path) = ComparedForm(p)

\* C4: parsing an outline, serializing the tree with to_markdown and
\* parsing the result again yields a structurally equal tree (titles,
\* paths, part-header flags, nesting, order) with the same header line; so
\* an update that adds nothing writes an outline that parses to the tree
\* the outline it read parsed to.
C4_RoundTrip ==
  LET s1 == parse_summary_structure(summary)
      s2 == parse_summary_structure(to_markdown(s1))
  IN /\ Shape(s2, s2.entries) = Shape(s1, s1.entries)
     /\ s2.raw_header = s1.raw_header
     /\ s2.title = s1.title
     /\ (result.mode = "preserve" /\ result.added = <<>>) =>
          LET old == parse_summary_structure(before)
          IN Shape(s1, s1.entries) = Shape(old, old.entries)

\* C4 witness: an update that added nothing rewrote an outline holding a
\* part header and a nested entry.
C4_Witness ==
  /\ result.mode = "preserve"
  /\ result.added = <<>>
  /\ LET old == parse_summary_structure(before)
     IN /\ \E i \in 1..Len(old.nodes) : old.nodes[i].is_part_header
        /\ \E i \in 1..Len(old.nodes) : old.nodes[i].children # <<>>

\* C5: a part header is appended at top level and resets the nesting: no
\* entry parsed after it is a child or descendant of an entry parsed before
\* it, whatever its indentation.
C5_PartHeaderResets ==
  LET st == parse_summary_structure(summary)
  IN \A h \in 1..Len(st.nodes) :
       st.nodes[h].is_part_header =>
         /\ h \in Range(st.entries)
         /\ \A i \in 1..(h - 1) : \A j \in (h + 1)..Len(st.nodes) :
              j \notin Descendants(st, i)

\* C5 witness: an indented entry follows a part header that follows a
\* linked entry.
C5_Witness ==
  LET st == parse_summary_structure(summary)
  IN \E h \in 2..Len(st.nodes) :
       /\ st.nodes[h].is_part_header
       /\ st.nodes[h - 1].path # NoPath
       /\ h + 1 <= Len(st.nodes)
       /\ st.nodes[h + 1].indent_level > 0

\* the lines of an outline that are entries
EntryLines(text) ==
  LET isEntry(l) == LStrip(l) # <<>> /\ LStrip(l)[1] = "-"
  IN SelectSeq(SplitLines(text), isEntry)

\* C19: flat mode discards the prior hierarchy: the outline written holds
\* one top-level entry for each discovered path, in the order of discovery,
\* at indent level 0 and without children; every discovered path is
\* reported as added and none as existing.  An outline that exists is
\* regenerated flat only when the caller passed preserve_structure=False:
\* the default preserves, and a call that leaves an empty outline to the
\* default writes what the merge into an empty outline writes.
C19_FlatDiscardsHierarchy ==
  (result.mode = "flat") =>
    LET paths == result.discovered
        lines == EntryLines(summary)
    IN /\ Len(lines) = Len(paths)
       /\ \A i \in 1..Len(paths) :
            /\ StartsWith(lines[i], <<"-", " ", "[">>)
            /\ EndsWith(lines[i], <<"]", "(">> \o paths[i] \o <<")">>)
       /\ Len(tree.nodes) = Len(paths)
       /\ Len(tree.entries) = Len(paths)
       /\ \A i \in 1..Len(paths) :
            LET e == tree.nodes[tree.entries[i]]
            IN e.path = paths[i] /\ e.indent_level = 0 /\ e.children = <<>>
               /\ ~e.is_part_header
       /\ result.added = paths /\ result.existing = <<>>
       /\ preserve_structure_default
       /\ ~result.selected_flat =>
            /\ before = <<>>
            /\ summary = update_preserving_structure(<<>>, paths).written

\* the caller selected flat mode for an outline that had a nested entry, and
\* two files, one of them in a directory, were discovered
C19_Witness ==
  /\ result.mode = "flat" /\ result.selected_flat
  /\ \E i \in 1..Len(SplitLines(before)) :
       StartsWith(SplitLines(before)[i], <<" ", " ", "-">>)
  /\ Len(result.discovered) = 2
  /\ \E i \in 1..2 : CountChar(result.discovered[i], "/") = 1

\* the outline on disk as the parser reads it
Parsed == parse_summary_structure(summary)

\* the entries of a structure in pre-order: each entry, then its children
RECURSIVE Preorder(_, _)
Preorder(st, ids) ==
  IF ids = <<>> THEN <<>>
  ELSE <<ids[1]>> \o Preorder(st, st.nodes[ids[1]].children)
       \o Preorder(st, Tail(ids))

\* C22: in the parsed outline every linked or plain entry is a child of the
\* nearest entry before it, since the last group header, whose indent level
\* is strictly smaller than its own, and a top-level entry when there is
\* none; so a child is indented more than its parent, and the pre-order walk
\* of the tree lists the entries in the order of their lines.
C22_StackNesting ==
  LET st == Parsed
      n == Len(st.nodes)
      open(j, i) == /\ j < i /\ ~st.nodes[j].is_part_header
                    /\ \A k \in (j + 1)..(i - 1) : ~st.nodes[k].is_part_header
                    /\ st.nodes[j].indent_level < st.nodes[i].indent_level
      nearest(i) == IF \E j \in 1..n : open(j, i)
                    THEN CHOOSE j \in 1..n :
                           open(j, i) /\ \A k \in (j + 1)..n : ~open(k, i)
                    ELSE 0
      parents(i) == { j \in 1..n : \E c \in 1..Len(st.nodes[j].children) :
                                     st.nodes[j].children[c] = i }
      top(i) == \E e \in 1..Len(st.entries) : st.entries[e] = i
  IN /\ \A i \in 1..n :
          IF st.nodes[i].is_part_header \/ nearest(i) = 0
          THEN top(i) /\ parents(i) = {}
          ELSE ~top(i) /\ parents(i) = {nearest(i)}
     /\ \A i, j \in 1..n :
          j \in parents(i) => st.nodes[i].indent_level > st.nodes[j].indent_level
     /\ Preorder(st, st.entries) = [i \in 1..n |-> i]

\* an outline of a top-level entry, an entry two levels down and an entry
\* one level down: both are children of the first
C22_Witness ==
  /\ Len(Parsed.nodes) = 3
  /\ Parsed.nodes[1].children = <<2, 3>>
  /\ Parsed.nodes[2].indent_level = 2 /\ Parsed.nodes[3].indent_level = 1
  /\ Parsed.entries = <<1>>

\* C23: the normal form of a path is used to compare only.  After a merge
\* every entry the outline had keeps the path text it was written with
\* (case, backslashes and a leading './' as they were), in the tree and in
\* the outline written; every added entry stores the discovered path as
\* discovery supplied it.
C23_PathsStoredVerbatim ==
  result.mode = "preserve" =>
    LET old == parse_summary_structure(before)
        n == Len(old.nodes)
    IN /\ Len(tree.nodes) = n + Len(result.added)
       /\ \A id \in 1..n :
            /\ tree.nodes[id].path = old.nodes[id].path
            /\ old.nodes[id].path # NoPath =>
                 IsSubstring(<<"]", "(">> \o old.nodes[id].path \o <<")">>,
                             summary)
       /\ \A j \in 1..Len(result.added) :
            /\ tree.nodes[n + j].path = result.added[j]
            /\ result.added[j] \in Range(result.discovered)
            /\ IsSubstring(<<"]", "(">> \o result.added[j] \o <<")">>, summary)

\* C23 witness: a merge added a path to an outline that stores a path in a
\* spelling other than its normal form, and found that path existing.
C23_Witness ==
  /\ result.mode = "preserve"
  /\ result.added # <<>>
  /\ result.existing # <<>>
  /\ LET old == parse_summary_structure(before)
     IN \E id \in 1..Len(old.nodes) :
          /\ old.nodes[id].path # NoPath
          /\ normalize_path(old.nodes[id].path) # old.nodes[id].path
          /\ normalize_path(old.nodes[id].path) \in Range(result.existing)

\* lines the outline parser does not recognize: text without a dash, a bare
\* dash, and list lines with a "[" that are not links (no closing
\* parenthesis, no title)
MalformedLines ==
  { <<"z", "z">>, <<"-">>,
    <<"-", " ", "[", "x", "]", "(", "d">>,
    <<" ", " ", "-", " ", "[", "]", "(", "b", ".", "m", "d", ")">> }

\* C26: a line that matches no pattern, and a list line with a "[" that is
\* not a well-formed link, is skipped: wherever it stands in an outline the
\* author wrote, the parse step leaves the structure and the entry stack as
\* they were, so the outline parses to the same tree with the line as
\* without it.
C26_MalformedSkipped ==
  LET lines == SplitLines(summary)
      start == [st |-> EmptyStructure, stack |-> <<>>]
  IN files = {} =>
     \A bad \in MalformedLines :
       \A k \in 0..Len(lines) :
         /\ LET ps == parse_lines(start, SubSeq(lines, 1, k))
            IN parse_line(ps, bad) = ps
         /\ k >= 1 =>
              parse_summary_structure(
                JoinLines(SubSeq(lines, 1, k) \o <<bad>>
                          \o SubSeq(lines, k + 1, Len(lines))))
                = parse_summary_structure(summary)

\* C26 witness: the outline has the line "- [x](d" between an entry and an
\* entry nested under it; the tree has the two entries only.
C26_Witness ==
  /\ files = {}
  /\ Len(SplitLines(summary)) >= 4
  /\ SplitLines(summary)[3] = <<"-", " ", "[", "x", "]", "(", "d">>
  /\ Len(Parsed.nodes) = 2
  /\ Parsed.nodes[1].children = <<2>>

(***************************************************************************)
(* Properties of the frontmatter split                                     *)
(***************************************************************************)

\* a document has a frontmatter block when its first line is exactly "---"
\* and a later line is exactly "---"
HasFrontmatterBlock(d) ==
  LET lines == SplitLines(d)
  IN /\ lines[1] = DASHES
     /\ \E j \in 2..Len(lines) : lines[j] = DASHES

\* C9: for every document that has a frontmatter block, the extracted
\* frontmatter followed by the extracted body (the text handed to section
\* parsing) is the document, including blank lines and leading whitespace
\* after the closing delimiter.
C9_SplitLossless ==
  (split.extracted /\ split.stripped /\ HasFrontmatterBlock(doc)) =>
    split.frontmatter \o split.body = doc

\* C10: for every document without a frontmatter block (its first line is
\* not exactly "---", or no later line is exactly "---") the split yields an
\* empty frontmatter and the document itself as body.
C10_NoFrontmatterUnchanged ==
  (split.extracted /\ split.stripped /\ ~HasFrontmatterBlock(doc)) =>
    (split.frontmatter = <<>> /\ split.body = doc)

(***************************************************************************)
(* Properties of the chapter edit operations                               *)
(***************************************************************************)

\* the four edit operations that return an EditResult
EditOps ==
  {"update_chapter_content", "append_to_chapter", "insert_at_section",
   "replace_section"}

\* a text passes validation: an even number of code fences, and as many
\* "[" as "]"
Balanced(text) ==
  /\ CountFences(text) % 2 = 0
  /\ CountChar(text, "[") = CountChar(text, "]")

\* C6: validation is a hard gate for update_chapter_content,
\* append_to_chapter, insert_at_section and replace_section: whenever the
\* resulting full text draws a warning, the call returns success = false
\* and changes neither the chapter file nor the backups, whatever dry_run
\* and create_backup are.
C6_ValidationGate ==
  [][(/\ outcome'.op \in EditOps
      /\ outcome'.raised = "none"
      /\ ~Balanced(outcome'.modified))
     => (/\ ~outcome'.result.success
         /\ outcome'.steps = <<>>
         /\ chapter' = chapter
         /\ backups' = backups)]_vars

\* C6 witness: an edit called with dry_run = false and create_backup = true
\* built a text with a warning, on a chapter text that had none, and was
\* refused.
C6_Witness ==
  /\ outcome.op \in EditOps
  /\ outcome.raised = "none"
  /\ ~outcome.dry_run /\ outcome.create_backup
  /\ Balanced(outcome.original)
  /\ ~Balanced(outcome.modified)
  /\ ~outcome.result.success
  /\ chapter = outcome.original
  /\ backups = <<>>

\* C7: a call of one of the four edit operations with dry_run = true writes
\* no file and makes no backup, even with create_backup = true; when the
\* resulting text passes validation the result is success = true and
\* carries the diff of the chapter text against the resulting text.
C7_DryRunTouchesNothing ==
  [][(outcome'.op \in EditOps /\ outcome'.dry_run)
     => (/\ outcome'.steps = <<>>
         /\ chapter' = chapter
         /\ backups' = backups
         /\ (outcome'.raised = "none" /\ Balanced(outcome'.modified))
            => (/\ outcome'.result.success
                /\ ~outcome'.result.diff.none
                /\ outcome'.original = chapter
                /\ (outcome'.modified # chapter)
                   => (/\ outcome'.result.diff.old = splitlines(chapter)
                       /\ outcome'.result.diff.new =
                            splitlines(outcome'.modified))))]_vars

\* C7 witness: a dry run with create_backup = true passed validation and
\* returned a diff of a text that differs from the chapter, after an
\* earlier call had made a backup; the file and the backups are as before.
C7_Witness ==
  /\ outcome.op \in EditOps
  /\ outcome.raised = "none"
  /\ outcome.dry_run /\ outcome.create_backup
  /\ outcome.result.success
  /\ outcome.result.diff.old # outcome.result.diff.new
  /\ outcome.modified # chapter
  /\ chapter = outcome.original
  /\ Len(backups) = 1

\* C8: no call of a WriterService operation that rewrites a chapter file
\* (the four edit operations, update_section, add_note) writes a text with
\* an odd number of code fences or unequal counts of "[" and "]".
C8_WritesAreValidated ==
  [][\A i \in 1..Len(outcome'.steps) :
       outcome'.steps[i].do = "write" => Balanced(outcome'.steps[i].text)]_vars


\* C15: a call with a chapter number the book does not have, or (for the
\* operations on a section) a section identifier that resolves to nothing,
\* raises KeyError naming the identifier, with no backup and no write: the
\* chapter file and the backups stay as they were, and no other chapter or
\* section is edited in its place.
C15_NotFoundChangesNothing ==
  [][ LET o == outcome'
          unknown_chapter == o.chapter_index \notin ChapterNumbers
          unresolved ==
            /\ o.op \in {"insert_at_section", "replace_section",
                         "update_section", "add_note"}
            /\ get_section(parse_sections(strip_frontmatter(chapter)),
                           request.section_id) = NoSection
      IN (unknown_chapter \/ unresolved) =>
           /\ o.raised = "KeyError"
           /\ o.not_found = IF unknown_chapter THEN "chapter" ELSE "section"
           /\ o.steps = <<>>
           /\ chapter' = chapter /\ backups' = backups ]_vars

\* a call that asked for a backup and a write named a section the chapter
\* does not have
C15_Witness ==
  /\ outcome.raised = "KeyError" /\ outcome.not_found = "section"
  /\ outcome.create_backup /\ ~outcome.dry_run
  /\ outcome.op = "replace_section"
  /\ backups = <<>>

\* C20: an edit operation takes a backup only when create_backup is set,
\* the call is not a dry run and the text it built passed validation; when
\* it both backs up and writes, the backup is taken before the write, so the
\* backup holds the chapter file as it was before the edit.
C20_BackupBeforeWrite ==
  LET steps == outcome.steps
      copies == { i \in 1..Len(steps) : steps[i].do = "copy" }
      writes == { i \in 1..Len(steps) : steps[i].do = "write" }
  IN /\ copies # {} =>
          /\ outcome.create_backup /\ ~outcome.dry_run
          /\ Balanced(outcome.modified)
          /\ outcome.op \in EditOps
     /\ \A i \in copies, j \in writes : i < j
     /\ (copies # {} /\ writes # {}) =>
          /\ backups # <<>>
          /\ backups[Len(backups)] = outcome.original
          /\ chapter = outcome.modified

\* a call backed the chapter file up and then wrote a different text
C20_Witness ==
  /\ \E i, j \in 1..Len(outcome.steps) :
       outcome.steps[i].do = "copy" /\ outcome.steps[j].do = "write"
  /\ outcome.original # outcome.modified
  /\ backups # <<>> /\ backups[Len(backups)] = outcome.original
  /\ chapter = outcome.modified

\* C21: the diff is taken between the chapter text before the edit and the
\* text the edit built, whatever dry_run is: every outcome of
\* update_chapter_content, append_to_chapter, insert_at_section and
\* replace_section, one rejected by validation included, carries that diff
\* (so the dry run and the real call return the same one).
C21_DiffAlways ==
  (outcome.op \in EditOps /\ outcome.raised = "none") =>
    outcome.result.diff = generate_diff(outcome.original, outcome.modified)

(***************************************************************************)
(* Properties of the text operations                                       *)
(***************************************************************************)

\* the frontmatter block of a document: its lines up to the first later
\* line that is exactly "---", with that line's newline; nothing when the
\* document has no block
RECURSIVE ClosingLine(_, _)
ClosingLine(lines, j) ==
  IF j > Len(lines) THEN 0
  ELSE IF lines[j] = DASHES THEN j ELSE ClosingLine(lines, j + 1)
FrontmatterBlock(d) ==
  IF ~HasFrontmatterBlock(d) THEN <<>>
  ELSE LET lines == SplitLines(d)
       IN JoinLines(SubSeq(lines, 1, ClosingLine(lines, 2)))
          \o (IF ClosingLine(lines, 2) < Len(lines) THEN <<"\n">> ELSE <<>>)

\* the text a write step of the operation puts in the chapter file
Written == { output.steps[i].text : i \in { j \in 1..Len(output.steps) :
                                            output.steps[j].do = "write" } }

\* C11: replace-whole writes the original frontmatter block followed by the
\* caller's text without its leading newlines, ending in a newline; nothing
\* of the old body is in it.
C11_ReplaceWholeKeepsFrontmatter ==
  (input.kind = "update_chapter_content" /\ output.done) =>
    \A w \in Written :
      w = with_newline(FrontmatterBlock(input.doc)
                       \o LStripChars(input.text, {"\n"}))


\* the sections the reader hands to the operation, and the one it locates
InputSections == parse_sections(strip_frontmatter(input.doc))
Located == get_section(InputSections, input.section_id)

\* text is the pieces in their order, with nothing but newlines before,
\* between and after them
RECURSIVE InOrder(_, _)
InOrder(text, pieces) ==
  IF pieces = <<>> THEN \A i \in 1..Len(text) : text[i] = "\n"
  ELSE \E k \in 0..Len(text) :
         /\ \A i \in 1..k : text[i] = "\n"
         /\ StartsWith(SubSeq(text, k + 1, Len(text)), pieces[1])
         /\ InOrder(SubSeq(text, k + Len(pieces[1]) + 1, Len(text)), Tail(pieces))

\* what follows the kept frontmatter in the text the operation built
BuiltBody ==
  SubSeq(output.text, Len(extract_frontmatter(input.doc)) + 1, Len(output.text))

\* C12: replace-section puts the replacement where the located section's
\* content was and leaves every other section's content as it was, in the
\* original order; with preserve_heading on a section that has a heading the
\* replacement is "## ", the heading, a blank line and the trimmed new text.
C12_ReplaceOnlyLocated ==
  (input.kind = "replace_section" /\ output.done /\ output.raised = "none") =>
    LET replacement ==
          IF input.preserve_heading /\ Located.heading # NoHeading
          THEN H2 \o Located.heading \o <<"\n", "\n">> \o Strip(input.text)
          ELSE Strip(input.text)
        pieces == [i \in 1..Len(InputSections) |->
                     IF i = Located.index + 1 THEN replacement
                     ELSE InputSections[i].content]
    IN /\ InOrder(BuiltBody, pieces)
       /\ Written \subseteq {output.text}

\* a chapter of a preamble and two sections whose first section is replaced
\* under its heading, and the text is written
C12_Witness ==
  /\ input.kind = "replace_section" /\ output.done /\ output.raised = "none"
  /\ Len(InputSections) = 3 /\ Located.index = 1 /\ input.preserve_heading
  /\ InputSections[1].content # <<>>
  /\ Located.content # H2 \o Located.heading
  /\ Written = {output.text}


\* C13: insert-at-section keeps every section's content, once and in the
\* original order, and puts the new text right before the located section's
\* content (position "before") or right after it, ahead of the next section
\* (position "after").
C13_InsertKeepsOrder ==
  (input.kind = "insert_at_section" /\ output.done /\ output.raised = "none") =>
    LET n == Len(InputSections)
        at == Located.index + (IF input.position = "before" THEN 1 ELSE 2)
        pieces == [i \in 1..(n + 1) |->
                     IF i < at THEN InputSections[i].content
                     ELSE IF i = at THEN Strip(input.text)
                     ELSE InputSections[i - 1].content]
    IN /\ InOrder(BuiltBody, pieces)
       /\ Written \subseteq {output.text}

\* new text is put after the first of two sections that follow a preamble,
\* and the text is written
C13_Witness ==
  /\ input.kind = "insert_at_section" /\ output.done /\ output.raised = "none"
  /\ Len(InputSections) = 3 /\ Located.index = 1 /\ input.position = "after"
  /\ InputSections[1].content # <<>>
  /\ Written = {output.text}


\* the number of newlines in front of each piece of a text that is the
\* pieces in their order with newlines between them
RECURSIVE Gaps(_, _)
Gaps(text, pieces) ==
  IF pieces = <<>> THEN <<>>
  ELSE LET k == FirstNotInFrom(text, {"\n"}, 1) - 1
       IN <<k>> \o Gaps(SubSeq(text, k + Len(pieces[1]) + 1, Len(text)),
                        Tail(pieces))

\* C24: insert-at-section rebuilds the chapter as replace-section does: in
\* front of a section that neither operation touches, and that follows
\* another such section, both operations on the same chapter and section
\* put the same separator.
C24_SameSeparators ==
  (input.kind = "insert_at_section" /\ output.done /\ output.raised = "none") =>
    LET n == Len(InputSections)
        at == Located.index + (IF input.position = "before" THEN 1 ELSE 2)
        inserted == [i \in 1..(n + 1) |->
                       IF i < at THEN InputSections[i].content
                       ELSE IF i = at THEN Strip(input.text)
                       ELSE InputSections[i - 1].content]
        replaced == [i \in 1..n |->
                       IF i = Located.index + 1
                       THEN headed_section(Located.heading, input.text)
                       ELSE InputSections[i].content]
        replace_text == replace_modified(input.doc, InputSections, Located,
                                         input.text, TRUE)
        replace_body == SubSeq(replace_text,
                               Len(extract_frontmatter(input.doc)) + 1,
                               Len(replace_text))
        untouched(i) == /\ i # Located.index + 1
                        /\ InputSections[i].content # <<>>
    IN \A i \in 2..n :
         (untouched(i - 1) /\ untouched(i)) =>
           Gaps(BuiltBody, inserted)[IF i < at THEN i ELSE i + 1]
             = Gaps(replace_body, replaced)[i]


\* C27: replace-section with preserve_heading is idempotent: applied again,
\* with the same section identifier and new content, to the chapter the
\* first application built, it builds that same chapter.
C27_ReplaceIdempotent ==
  (/\ input.kind = "replace_section" /\ input.preserve_heading
   /\ output.done /\ output.raised = "none") =>
    LET sections == parse_sections(strip_frontmatter(output.text))
        section == get_section(sections, input.section_id)
    IN /\ section # NoSection
       /\ replace_modified(output.text, sections, section, input.text, TRUE)
            = output.text


\* the entries of a heading hierarchy in pre-order
RECURSIVE HeadingsPreorder(_, _)
HeadingsPreorder(h, ids) ==
  IF ids = <<>> THEN <<>>
  ELSE <<ids[1]>> \o HeadingsPreorder(h, h.nodes[ids[1]].children)
       \o HeadingsPreorder(h, Tail(ids))

C14_AppendSeparator ==
  (input.kind = "append_to_chapter" /\ output.done) =>
    LET separator == IF EndsWith(input.doc, <<"\n">>)
                     THEN <<"\n">> ELSE <<"\n", "\n">>
        joined == input.doc \o separator \o input.text
    IN /\ output.text = RStripChars(joined, {"\n"}) \o <<"\n">>
       /\ EndsWith(output.text, <<"\n">>)
       /\ ~EndsWith(output.text, <<"\n", "\n">>)


\* C16: validation is decided by two counts: it warns of an unclosed code
\* block exactly when the text holds an odd number of fence markers, and of
\* mismatched brackets exactly when the counts of "[" and "]" differ, and
\* warns of nothing else; so an even number of fences with equal counts
\* gives no warning, and three fences with balanced brackets give one.
C16_ValidationByCounts ==
  (input.kind = "validate_markdown" /\ output.done) =>
    LET w == output.warnings
        kinds == { w[i].kind : i \in 1..Len(w) }
        odd == CountFences(input.doc) % 2 = 1
        differ == CountChar(input.doc, "[") # CountChar(input.doc, "]")
    IN /\ ("Unclosed code block" \in kinds) <=> odd
       /\ ("Mismatched brackets" \in kinds) <=> differ
       /\ Len(w) = (IF odd THEN 1 ELSE 0) + (IF differ THEN 1 ELSE 0)
       /\ (~odd /\ ~differ) => w = <<>>
       /\ (CountFences(input.doc) = 3 /\ ~differ) => Len(w) = 1

\* a text of three fences and one pair of brackets was validated
C16_Witness ==
  /\ input.kind = "validate_markdown" /\ output.done
  /\ CountFences(input.doc) = 3
  /\ CountChar(input.doc, "[") = 1 /\ CountChar(input.doc, "]") = 1
  /\ Len(output.warnings) = 1


\* C17: slugify is idempotent; a slug neither starts nor ends with a hyphen
\* and holds no two hyphens in a row, no whitespace and no underscore; the
\* slug of the empty text is empty.
C17_SlugifyIdempotent ==
  (input.kind = "slugify" /\ output.done) =>
    LET slug == output.text
    IN /\ slugify(slug) = slug
       /\ slug # <<>> => (slug[1] # "-" /\ slug[Len(slug)] # "-")
       /\ \A i \in 1..Len(slug) :
            /\ slug[i] \notin WS \cup {"_"}
            /\ i < Len(slug) => ~(slug[i] = "-" /\ slug[i + 1] = "-")
       /\ input.doc = <<>> => slug = <<>>

\* a text whose words are parted by hyphens around a punctuation mark was
\* slugified into two words and one hyphen
C17_Witness ==
  /\ input.kind = "slugify" /\ output.done
  /\ input.doc = <<"A", "-", "!", "-", "A">>
  /\ output.text = <<"a", "-", "a">>

\* C18: an identifier that is a number, or a string of digits, is an index
\* and is never matched against heading text: "2" (or 2) in a chapter whose
\* sections are 0 and 1 is not found even when a heading holds "2".  Any
\* other string is found in the first section, in index order, whose heading
\* holds it whatever the case, and is not found when no heading does.
C18_NumericIsIndex ==
  (input.kind = "get_section" /\ output.done) =>
    LET id == input.section_id
        found == output.section
        matches(i) == /\ InputSections[i].heading # NoHeading
                      /\ IsSubstring(Lower(id.s), Lower(InputSections[i].heading))
    IN IF id.is_int \/ IsDigits(id.s)
       THEN LET n == IF id.is_int THEN id.n ELSE ToInt(id.s)
            IN IF n < Len(InputSections)
               THEN found = InputSections[n + 1] /\ found.index = n
               ELSE found = NoSection
       ELSE IF \E i \in 1..Len(InputSections) : matches(i)
            THEN \E i \in 1..Len(InputSections) :
                   /\ found = InputSections[i] /\ matches(i)
                   /\ \A j \in 1..(i - 1) : ~matches(j)
            ELSE found = NoSection

\* the string "2" was looked up in a chapter of sections 0 and 1 whose
\* heading holds "2", and nothing was found
C18_Witness ==
  /\ input.kind = "get_section" /\ output.done
  /\ input.section_id = StrId(<<"2">>)
  /\ Len(InputSections) = 2
  /\ IsSubstring(<<"2">>, InputSections[2].heading)
  /\ output.section = NoSection


(***************************************************************************)
(* Properties of the reader's navigation                                   *)
(***************************************************************************)

\* C28: next_chapter moves to the smallest discovered chapter number above
\* the current one, from the overview and from a chapter that was not
\* discovered as well, and leaves the current chapter as it is when there
\* is none; previous_chapter moves to the largest discovered positive
\* number below the current one, and stays when there is none.
C28_NextInReadingOrder ==
  [][LET above == {c \in chapters : c > current_chapter}
         below == {c \in chapters : c > 0 /\ c < current_chapter}
     IN /\ NextChapter =>
             current_chapter' =
               IF above = {} THEN current_chapter
               ELSE CHOOSE c \in above : \A d \in above : c <= d
        /\ PreviousChapter =>
             current_chapter' =
               IF below = {} THEN current_chapter
               ELSE CHOOSE c \in below : \A d \in below : c >= d]_vars


(***************************************************************************)
(* Properties of add_chapter and update_toc                                *)
(***************************************************************************)

\* the number a chapter file's name starts with, 0 if none
NumberOf(f) == ToInt(SubSeq(f.name, 1, DigitRun(f.name, 1)))

RECURSIVE Subsequence(_, _)
Subsequence(a, b) ==
  IF a = <<>> THEN TRUE
  ELSE IF b = <<>> THEN FALSE
  ELSE IF a[1] = b[1] THEN Subsequence(Tail(a), Tail(b))
  ELSE Subsequence(a, Tail(b))

\* C30: update_toc that merges into an existing SUMMARY.md only appends:
\* the lines the file had are all in the text written, as they were and in
\* their order; a chapter whose path is in a link of the file gets no new
\* line; when that is so for every chapter, the text written is the text
\* the file had.
C30_MergeOnlyAppends ==
  toc_update.mode = "merge" =>
    LET old == SplitLines(toc_update.before)
        new == SplitLines(summary_md.text)
        link(c) == <<"]", "(">> \o rel_path(c) \o <<")">>
        linked(c, lines) == {i \in 1..Len(lines) : IsSubstring(link(c), lines[i])}
        listed(c) == linked(c, old) # {}
    IN /\ Subsequence(old, new)
       /\ \A k \in 1..Len(book_chapters) :
            listed(book_chapters[k]) =>
              Cardinality(linked(book_chapters[k], new))
                = Cardinality(linked(book_chapters[k], old))
       /\ (\A k \in 1..Len(book_chapters) : listed(book_chapters[k])) =>
            summary_md.text = toc_update.before

=============================================================================
